---------------------------- MODULE Spec2Model ----------------------------
(***************************************************************************)
(* A model of the CurrencyTradeBot daemon: the date/time utilities         *)
(* (utils/dt.py), the process entry point (main.py), the storage layer     *)
(* (models/db.py) with its module-level LOCK, the rangetest decorator      *)
(* (utils/decorators.py), the logger (models/logger.py) and the rate       *)
(* parsers (models/parsers.py).                                            *)
(*                                                                         *)
(* Specifications:                                                         *)
(*   SpecTime, SpecNow                                                     *)
(*             the pure date/time functions applied to sampled inputs      *)
(*   SpecMain  the entry point: six daemon threads and the foreground loop *)
(*   SpecLoop  infinite_loop around a callable that returns or raises      *)
(*   Spec      the storage layer called from concurrent threads            *)
(*   SpecSeq   the storage layer called by one caller, one call at a time  *)
(*   SpecPred, SpecChange, SpecUpToDate, SpecDelete, SpecLiked,            *)
(*   SpecUnverified                                                        *)
(*             one caller creating, changing, deleting, ranking and        *)
(*             listing predictions                                         *)
(*   SpecUsers, SpecProfile, SpecRates                                     *)
(*             one caller writing and reading users and subscriptions      *)
(*   SpecSession                                                           *)
(*             both handlers, each on its own connection to one file       *)
(*   SpecLock, SpecQuota                                                   *)
(*             two threads calling both handlers concurrently              *)
(*   SpecUpdate                                                            *)
(*             one caller changing a stored profile, several fields a call *)
(*   SpecRange the decorated function called with sampled arguments        *)
(*   SpecLogger                                                            *)
(*             log and set_level called on one logger                      *)
(*   SpecParser, SpecValue                                                 *)
(*             get_response and update_value called on two parsers         *)
(*   SpecExchanger                                                         *)
(*             CurrencyExchanger.get_rate on sampled isos and networks     *)
(***************************************************************************)
EXTENDS Integers, Sequences, FiniteSets, Bags, TLC

VARIABLES
    utcnow,         \* what datetime.utcnow() returns, to the second (naive, UTC)
    t_pc,           \* SpecTime: "input" before the call, "done" after it
    t_target,       \* SpecTime: the datetime argument
    t_offset,       \* SpecTime: the utcoffset argument
    t_result,       \* SpecTime: outcome of the call, [exc, val]
    process,        \* SpecMain: "running" or "exited"
    exit_status,    \* SpecMain: the status the process exited with
    m_pc,           \* SpecMain: position of the main thread in main.py
    m_started,      \* SpecMain: how many targets the for loop has started
    thread,         \* SpecMain: state of the thread of each target
    stdout,         \* SpecMain: the banners printed so far
    interrupted,    \* SpecMain: a KeyboardInterrupt was raised in the main thread
    LOCK,           \* db.py: the module-level threading.Lock is held
    executing,      \* threads inside conn.execute(...).fetchall()
    users,          \* table users: a bag of rows
    users_rates,    \* table users_rates: a bag of rows
    currency_predictions,   \* table currency_predictions: id -> row
    sqlite_sequence,        \* largest id AUTOINCREMENT has handed out
    predictions_reactions,  \* table predictions_reactions: a bag of rows (no key)
    sessions,       \* table sessions: a bag of rows
    writer,         \* the connection whose open transaction holds the write lock
    disk,           \* the committed content of the database file
    call,           \* per thread: the storage operation called and its arguments
    pc,             \* per thread: the statement the call is at, or "idle"
    ret,            \* per thread: outcome of the last finished call
    r_pc,           \* SpecRange: "input" before the decorated call, "done" after it
    r_call,         \* SpecRange: strict_range and the arguments of the call
    r_result,       \* SpecRange: outcome of the call, [exc, val]
    r_body,         \* SpecRange: the wrapped function's body was executed
    log_level,      \* Logger.log_level
    log_count,      \* Logger.log_count
    logfile,        \* Logger.logfile: the number of the file it refers to
    logfiles,       \* the files log<n>.log of the directory: [size, lines, closed]
    console,        \* number of lines printed by cprint
    l_call,         \* the last call made on the logger and its arguments
    l_ret,          \* outcome of the last call on the logger
    l_calls,        \* number of calls made on the logger
    proxy_list,     \* the list object the parsers were given as proxy_list
    proxies,        \* get_response: the list its loop runs over
    session,        \* per parser: how many requests.Session objects it has created
    p_value,        \* per parser: CurrencyParser.value
    p_call,         \* the parser call in progress or last made, and its arguments
    p_pc,           \* position of that call, or "idle"
    p_i,            \* get_response: position of the loop in proxies
    q,              \* get_response: the local q, the last response received
    p_ret,          \* outcome of the last finished parser call
    p_responses,    \* number of get_response calls started
    last_parsed,    \* per parser: the value of its last successful parse
    attempted,      \* the last request of the get_response call in progress, and
                    \* how many requests, and direct requests, the call has made
    e_pc,           \* SpecExchanger: "input" before get_rate, "done" after it
    e_call,         \* SpecExchanger: iso_from and iso_to
    e_env,          \* SpecExchanger: the network and the pages during the call
    e_ret,          \* SpecExchanger: outcome of the call
    il_pc,          \* SpecLoop: position of infinite_loop
    il_history,     \* SpecLoop: how each call of func ended, in order
    il_stdout,      \* SpecLoop: the lines infinite_loop printed
    snap,           \* the table add_prediction / add_user_rate writes, as it was
                    \* when the last such call was made
    last_toggle     \* per (pred_id, user_id): if_like of the last toggle that returned True

timevars == <<t_pc, t_target, t_offset, t_result>>
mainvars == <<process, exit_status, m_pc, m_started, thread, stdout, interrupted>>
tables == <<users, users_rates, currency_predictions, sqlite_sequence,
            predictions_reactions, sessions>>
conns == <<writer, disk>>
rangevars == <<r_pc, r_call, r_result, r_body>>
logvars == <<log_level, log_count, logfile, logfiles, console, l_call, l_ret, l_calls>>
parservars == <<proxy_list, proxies, session, p_value, p_call, p_pc, p_i, q, p_ret,
                p_responses, last_parsed, attempted>>
exchvars == <<e_pc, e_call, e_env, e_ret>>
loopvars == <<il_pc, il_history, il_stdout>>
auxvars == <<rangevars, logvars, parservars, exchvars, loopvars>>
dbvars == <<LOCK, executing, tables, conns, call, pc, ret, snap, last_toggle>>

(***************************************************************************)
(* Python values                                                           *)
(***************************************************************************)
\* Outcome of a call: exc = "none" and the returned value, or the exception raised.
Returned(v) == [exc |-> "none", val |-> v]
Raised(e) == [exc |-> e, val |-> FALSE]

\* A datetime.datetime; aware = FALSE means tzinfo is None, off is the fixed
\* utc offset in hours of an aware value.  Microseconds are not modelled: the
\* clock is the second-truncated one get_current_datetime produces.
Datetime(y, mo, d, h, mi, s, aware, off) ==
    [year |-> y, month |-> mo, day |-> d, hour |-> h, minute |-> mi,
     second |-> s, aware |-> aware, off |-> off]

\* Placeholder where no datetime is held.
NoDatetime == Datetime(1, 1, 1, 0, 0, 0, FALSE, 0)

(***************************************************************************)
(* datetime arithmetic of the standard library, as far as dt.py uses it    *)
(***************************************************************************)
IsLeap(y) == (y % 4 = 0) /\ ((y % 100 # 0) \/ (y % 400 = 0))

DaysInMonth(y, m) ==
    IF m = 2 THEN (IF IsLeap(y) THEN 29 ELSE 28)
    ELSE IF m \in {4, 6, 9, 11} THEN 30 ELSE 31

RECURSIVE DaysBeforeMonth(_, _)
DaysBeforeMonth(y, m) ==
    IF m = 1 THEN 0 ELSE DaysBeforeMonth(y, m - 1) + DaysInMonth(y, m - 1)

DaysBeforeYear(y) ==
    (y - 1) * 365 + ((y - 1) \div 4) - ((y - 1) \div 100) + ((y - 1) \div 400)

\* datetime.toordinal()
ToOrdinal(d) == DaysBeforeYear(d.year) + DaysBeforeMonth(d.year, d.month) + d.day

SecondsOfDay(d) == d.second + d.minute * 60 + d.hour * 3600

\* (a - b).total_seconds() for two aware datetimes: the naive difference,
\* corrected by the two utc offsets (datetime.__sub__).
TotalSecondsBetween(a, b) ==
    LET base == (ToOrdinal(a) - ToOrdinal(b)) * 86400
                + (SecondsOfDay(a) - SecondsOfDay(b))
    IN  IF a.off = b.off THEN base ELSE base + (b.off - a.off) * 3600

(***************************************************************************)
(* utils/dt.py                                                             *)
(***************************************************************************)
\* range(-11, 13)
MinOffset == -11
MaxOffset == 12
OffsetRange == MinOffset .. MaxOffset

\* add_offset(d, utcoffset): d.replace(tzinfo=timezone(timedelta(hours)))
add_offset(d, utcoffset) == [d EXCEPT !.aware = TRUE, !.off = utcoffset]

\* get_current_datetime(utcoffset), n being datetime.utcnow().  replace()
\* raises ValueError when the new day is not a day of n's month.
get_current_datetime(n, utcoffset) ==
    IF utcoffset \notin OffsetRange THEN Raised("AssertionError")
    ELSE LET newday == n.day + ((n.hour + utcoffset) \div 24)
             newhour == (n.hour + utcoffset) % 24
         IN  IF newday < 1 \/ newday > DaysInMonth(n.year, n.month)
             THEN Raised("ValueError")
             ELSE Returned(add_offset([n EXCEPT !.day = newday, !.hour = newhour],
                                      utcoffset))

\* Variant: every aware datetime passes.
check_datetime_in_future_Always(n, up_to_date, utcoffset) ==
    IF ~up_to_date.aware THEN Raised("AssertionError") ELSE Returned(TRUE)

\* Variant: the comparison is strict (< 0).
check_datetime_in_future_Strict(n, up_to_date, utcoffset) ==
    IF ~up_to_date.aware THEN Raised("AssertionError")
    ELSE IF utcoffset \notin OffsetRange THEN Raised("AssertionError")
    ELSE LET now == get_current_datetime(n, utcoffset)
         IN  IF now.exc # "none" THEN Raised(now.exc)
             ELSE Returned(TotalSecondsBetween(now.val, up_to_date) < 0)

\* check_datetime_in_future(up_to_date, utcoffset)
check_datetime_in_future(n, up_to_date, utcoffset) ==
    IF ~up_to_date.aware THEN Raised("AssertionError")
    ELSE IF utcoffset \notin OffsetRange THEN Raised("AssertionError")
    ELSE LET now == get_current_datetime(n, utcoffset)
         IN  IF now.exc # "none" THEN Raised(now.exc)
             ELSE Returned(TotalSecondsBetween(now.val, up_to_date) <= 0)

(***************************************************************************)
(* SpecTime: the date/time functions on sampled inputs                     *)
(***************************************************************************)
MaxSecond == 2
SampleYears == {2023, 2024}
SampleMonths == {1, 2, 12}
SampleHours == {0, 1, 12, 22, 23}
SampleDays(y, m) == {1, 15, DaysInMonth(y, m)}
SampleTargetOffsets == {0, 2}
SampleOffsets == (MinOffset - 1) .. (MaxOffset + 1)

SampleNow ==
    UNION { { Datetime(y, m, d, h, 0, s, FALSE, 0) :
                d \in SampleDays(y, m), h \in SampleHours, s \in 0 .. MaxSecond } :
            <<y, m>> \in SampleYears \X SampleMonths }

\* Targets around the current instant: the same minute, written in UTC, in
\* another zone (same instant, shifted wall clock) or without a zone.
SampleTargets(n) ==
    { Datetime(n.year, n.month, n.day, n.hour, n.minute, s, FALSE, 0) :
        s \in 0 .. MaxSecond }
    \cup { Datetime(n.year, n.month, n.day, n.hour + o, n.minute, s, TRUE, o) :
             <<o, s>> \in { p \in SampleTargetOffsets \X (0 .. MaxSecond) :
                              n.hour + p[1] < 24 } }

InitTime ==
    /\ t_pc = "input"
    /\ t_offset \in SampleOffsets
    /\ t_target \in SampleTargets(utcnow)
    /\ t_result = Raised("pending")

IdleTime ==
    /\ t_pc = "idle"
    /\ t_offset = 0
    /\ t_target = NoDatetime
    /\ t_result = Raised("pending")

CheckDatetimeInFuture ==
    /\ t_pc = "input"
    /\ t_pc' = "done"
    /\ t_result' = check_datetime_in_future(utcnow, t_target, t_offset)
    /\ UNCHANGED <<utcnow, t_target, t_offset, auxvars, mainvars, dbvars>>

GetCurrentDatetime ==
    /\ t_pc = "input"
    /\ t_pc' = "done"
    /\ t_result' = get_current_datetime(utcnow, t_offset)
    /\ UNCHANGED <<utcnow, t_target, t_offset, auxvars, mainvars, dbvars>>

(***************************************************************************)
(* main.py: the entry point                                                *)
(***************************************************************************)
targets ==
    <<"check_alarm_times", "update_rates", "check_premium_ended",
      "verify_predictions", "techsupport_bot.main", "bot.infinity_polling">>

Tasks == 1 .. Len(targets)

InitMain ==
    /\ process = "running"
    /\ exit_status = -1
    /\ m_pc = "start"
    /\ m_started = 0
    /\ thread = [k \in Tasks |-> "unstarted"]
    /\ stdout = <<>>
    /\ interrupted = FALSE

\* for target in targets: threading.Thread(target=target, daemon=True).start()
StartThread ==
    /\ process = "running" /\ m_pc = "start" /\ m_started < Len(targets)
    /\ m_started' = m_started + 1
    /\ thread' = [thread EXCEPT ![m_started + 1] = "running"]
    /\ UNCHANGED <<process, exit_status, m_pc, stdout, interrupted>>
    /\ UNCHANGED <<utcnow, timevars, auxvars, dbvars>>

\* print("[INFO] Bot started at ...") once the for loop is exhausted;
\* get_current_datetime(0) shifts nothing and cannot fail.
StartBanner ==
    /\ process = "running" /\ m_pc = "start" /\ m_started = Len(targets)
    /\ get_current_datetime(utcnow, 0).exc = "none"
    /\ stdout' = Append(stdout, "Bot started")
    /\ m_pc' = "sleep"
    /\ UNCHANGED <<process, exit_status, m_started, thread, interrupted>>
    /\ UNCHANGED <<utcnow, timevars, auxvars, dbvars>>

\* Variant: the exception of a target ends the whole process.
TargetRaises_EndsProcess(k) ==
    /\ process = "running" /\ thread[k] = "running"
    /\ thread' = [thread EXCEPT ![k] = "terminated"]
    /\ process' = "exited"
    /\ exit_status' = 1
    /\ UNCHANGED <<m_pc, m_started, stdout, interrupted>>
    /\ UNCHANGED <<utcnow, timevars, auxvars, dbvars>>

\* The body of a target raises.  The thread was given the bare target, so the
\* exception leaves the thread's run(): the thread ends, and only the thread.
TargetRaises(k) ==
    /\ process = "running" /\ thread[k] = "running"
    /\ thread' = [thread EXCEPT ![k] = "terminated"]
    /\ UNCHANGED <<process, exit_status, m_pc, m_started, stdout, interrupted>>
    /\ UNCHANGED <<utcnow, timevars, auxvars, dbvars>>

\* sleep(100000) returns and the while loop sleeps again.
SleepReturns ==
    /\ process = "running" /\ m_pc = "sleep"
    /\ UNCHANGED mainvars
    /\ UNCHANGED <<utcnow, timevars, auxvars, dbvars>>

\* except KeyboardInterrupt: the interrupt reaches the main thread blocked in sleep.
KeyboardInterrupt ==
    /\ process = "running" /\ m_pc = "sleep"
    /\ m_pc' = "except"
    /\ interrupted' = TRUE
    /\ UNCHANGED <<process, exit_status, m_started, thread, stdout>>
    /\ UNCHANGED <<utcnow, timevars, auxvars, dbvars>>

\* print("[INFO] Bot stopped at ...")
StopBanner ==
    /\ process = "running" /\ m_pc = "except"
    /\ get_current_datetime(utcnow, 0).exc = "none"
    /\ stdout' = Append(stdout, "Bot stopped")
    /\ m_pc' = "exit"
    /\ UNCHANGED <<process, exit_status, m_started, thread, interrupted>>
    /\ UNCHANGED <<utcnow, timevars, auxvars, dbvars>>

\* sys.exit(0): the process ends, and its daemon threads with it.
SysExit ==
    /\ process = "running" /\ m_pc = "exit"
    /\ process' = "exited"
    /\ exit_status' = 0
    /\ UNCHANGED <<m_pc, m_started, thread, stdout, interrupted>>
    /\ UNCHANGED <<utcnow, timevars, auxvars, dbvars>>

NextMain ==
    \/ StartThread
    \/ StartBanner
    \/ \E k \in Tasks : TargetRaises(k)
    \/ SleepReturns
    \/ KeyboardInterrupt
    \/ StopBanner
    \/ SysExit

(***************************************************************************)
(* models/db.py: values, tables and the guarded execution path             *)
(***************************************************************************)
\* Python values passed as arguments and bound as SQL parameters.
\* t is the type; s, n, d hold a str, an int and a datetime respectively.
PyNone == [t |-> "None", s |-> "", n |-> 0, d |-> NoDatetime]
PyStr(x) == [t |-> "str", s |-> x, n |-> 0, d |-> NoDatetime]
PyInt(x) == [t |-> "int", s |-> "", n |-> x, d |-> NoDatetime]
PyDatetime(x) == [t |-> "datetime", s |-> "", n |-> 0, d |-> x]

\* bool(x)
Truthy(x) ==
    CASE x.t = "None" -> FALSE
      [] x.t = "str" -> x.s # ""
      [] x.t = "int" -> x.n # 0
      [] OTHER -> TRUE

\* a or b
PyOr(a, b) == IF Truthy(a) THEN a ELSE b

\* str(x) of a datetime: the text 'YYYY-MM-DD HH:MM:SS[+HH:MM]', a str whose
\* characters are kept as the fields they spell out.
DatetimeStr(x) == [t |-> "str", s |-> "datetime", n |-> 0, d |-> x]

Threads == {"t1", "t2"}
Caller == "t1"

NoCall == [op |-> "none"]

\* A database file in which setup_db has just created the tables.
EmptyStore ==
    [users |-> EmptyBag, users_rates |-> EmptyBag, currency_predictions |-> <<>>,
     sqlite_sequence |-> 0, predictions_reactions |-> EmptyBag, sessions |-> EmptyBag]

\* Both handlers have been constructed on the database file `store`: each
\* connection sees the committed rows, and no transaction is open.
InitStore(store) ==
    /\ LOCK = FALSE
    /\ executing = {}
    /\ users = store.users
    /\ users_rates = store.users_rates
    /\ currency_predictions = store.currency_predictions
    /\ sqlite_sequence = store.sqlite_sequence
    /\ predictions_reactions = store.predictions_reactions
    /\ sessions = store.sessions
    /\ writer = "none"
    /\ disk = store
    /\ call = [t \in Threads |-> NoCall]
    /\ pc = [t \in Threads |-> "idle"]
    /\ ret = [t \in Threads |-> Raised("none yet")]
    /\ snap = <<>>
    /\ last_toggle = <<>>

InitDB ==
    /\ LOCK = FALSE
    /\ executing = {}
    /\ users = EmptyBag
    /\ users_rates = EmptyBag
    /\ currency_predictions = <<>>
    /\ sqlite_sequence = 0
    /\ predictions_reactions = EmptyBag
    /\ sessions = EmptyBag
    /\ writer = "none"
    /\ disk = EmptyStore
    /\ call = [t \in Threads |-> NoCall]
    /\ pc = [t \in Threads |-> "idle"]
    /\ ret = [t \in Threads |-> Raised("none yet")]
    /\ snap = <<>>
    /\ last_toggle = <<>>

\* A call begins: the wrapper has run and the body is at its first statement.
Begin(t, c, first) ==
    /\ pc[t] = "idle"
    /\ call' = [call EXCEPT ![t] = c]
    /\ pc' = [pc EXCEPT ![t] = first]
    /\ UNCHANGED <<LOCK, executing, tables, conns, ret, last_toggle>>
    /\ UNCHANGED <<utcnow, timevars, auxvars, mainvars>>

\* A call ends before its first statement, with an exception of the wrapper.
Fail(t, c, e) ==
    /\ pc[t] = "idle"
    /\ call' = [call EXCEPT ![t] = c]
    /\ ret' = [ret EXCEPT ![t] = Raised(e)]
    /\ UNCHANGED <<LOCK, executing, tables, conns, pc, last_toggle>>
    /\ UNCHANGED <<utcnow, timevars, auxvars, mainvars>>

\* Variant: the statement runs without taking the lock.
execute_NoLock(t) ==
    /\ pc[t] # "idle" /\ t \notin executing
    /\ LOCK' = TRUE
    /\ executing' = executing \cup {t}
    /\ UNCHANGED <<tables, conns, call, pc, ret, snap, last_toggle>>
    /\ UNCHANGED <<utcnow, timevars, auxvars, mainvars>>

\* DBHandlerBase.execute, entering `with LOCK:`: blocks until the lock is free.
execute(t) ==
    /\ pc[t] # "idle" /\ t \notin executing
    /\ LOCK = FALSE
    /\ LOCK' = TRUE
    /\ executing' = executing \cup {t}
    /\ UNCHANGED <<tables, conns, call, pc, ret, snap, last_toggle>>
    /\ UNCHANGED <<utcnow, timevars, auxvars, mainvars>>

\* Thread t is running the statement `at` of operation `op`.
Running(t, op, at) == t \in executing /\ call[t].op = op /\ pc[t] = at

\* DBHandlerBase.execute, leaving `with LOCK:` after fetchall().
Release(t) ==
    /\ LOCK' = FALSE
    /\ executing' = executing \ {t}
    /\ UNCHANGED <<utcnow, timevars, auxvars, mainvars>>

\* The body goes on to its next statement / returns v / raises e.
Goto(t, next) == pc' = [pc EXCEPT ![t] = next] /\ UNCHANGED ret
Return(t, v) ==
    /\ pc' = [pc EXCEPT ![t] = "idle"]
    /\ ret' = [ret EXCEPT ![t] = Returned(v)]
Raise(t, e) ==
    /\ pc' = [pc EXCEPT ![t] = "idle"]
    /\ ret' = [ret EXCEPT ![t] = Raised(e)]

\* The connection an operation runs its statements on: each handler object
\* has its own (db.py 18).
SessionOps == {"get_all_sessions", "add_session", "fetch_count"}
Connection(op) == IF op \in SessionOps THEN "SessionDBHandler" ELSE "DBHandler"

\* An INSERT, UPDATE or DELETE opens a transaction on its connection unless
\* one is open, and takes the write lock of the database file; nothing in
\* db.py commits or rolls back, so the lock stays with that connection.
CanWrite(t) == writer \in {"none", Connection(call[t].op)}
Write(t) == CanWrite(t) /\ writer' = Connection(call[t].op)

\* The statements that write.
WriteStatements ==
    {"insert_user", "insert_prediction", "delete_reaction", "insert_reaction",
     "update", "insert_rate", "insert_session", "delete_prediction",
     "update_user", "decrease_count"}

\* Variant: the exception leaves execute with LOCK still held.
write_locked_KeepsLock(t) ==
    /\ t \in executing /\ pc[t] \in WriteStatements /\ ~CanWrite(t)
    /\ Raise(t, "OperationalError")
    /\ UNCHANGED <<LOCK, executing, tables, conns, call, snap, last_toggle>>
    /\ UNCHANGED <<utcnow, timevars, auxvars, mainvars>>

\* A write on a connection while the other one holds the write lock:
\* sqlite3.OperationalError (database is locked), which change_* translate.
write_locked(t) ==
    /\ t \in executing /\ pc[t] \in WriteStatements /\ ~CanWrite(t)
    /\ Release(t)
    /\ Raise(t, IF call[t].op \in {"change_user", "change_prediction"}
                THEN "ValueError" ELSE "OperationalError")
    /\ UNCHANGED <<tables, conns, call, snap, last_toggle>>

\* rangetest(arg=(low, inf)) in strict mode: low < value < inf.  Comparing
\* an int with None is a TypeError.
rangetest(low, value) ==
    IF value.t # "int" THEN "TypeError"
    ELSE IF low < value.n THEN "ok" ELSE "AssertionError"

\* check_user_exists / check_prediction_exists: len(res) > 0
check_user_exists(user_id) == \E r \in DOMAIN users : r.user_id = PyInt(user_id)
check_prediction_exists(pred_id) == pred_id \in DOMAIN currency_predictions

(***************************************************************************)
(* DBHandler.add_user                                                      *)
(***************************************************************************)
\* LENGTH(x) of the texts used as language codes.
LENGTH(x) ==
    CASE x = "" -> 0
      [] x = "e" -> 1
      [] x = "en" -> 2
      [] x = "eng" -> 3
      [] OTHER -> 4

\* The column constraints of users: user_id NOT NULL, the CHECKs on timezone
\* and language (a CHECK whose value is NULL passes).
users_constraints(row) ==
    /\ row.user_id.t # "None"
    /\ row.timezone.t = "None" \/ row.timezone.n \in -11 .. 12
    /\ row.language.t = "None" \/ LENGTH(row.language.s) \in {2, 3}

\* is_pro.strftime('%Y-%m-%d %H:%M:%S') if isinstance(is_pro, datetime) else is_pro:
\* the text has no zone, whatever the datetime's tzinfo.
strftime(x) == DatetimeStr([x EXCEPT !.aware = FALSE, !.off = 0])

\* is_active, is_staff and to_notify_by_experts are passed at their defaults.
add_user(t, user_id, is_pro, timezone, language) ==
    /\ Begin(t, [op |-> "add_user", user_id |-> user_id, is_pro |-> is_pro,
                 timezone |-> timezone, language |-> language], "insert_user")
    /\ UNCHANGED snap

\* The row add_user binds to its INSERT.
add_user_row(c) ==
    [user_id |-> PyInt(c.user_id), is_active |-> PyInt(1),
     is_pro |-> IF c.is_pro.t = "datetime" THEN strftime(c.is_pro.d) ELSE c.is_pro,
     is_staff |-> PyInt(0), to_notify_by_experts |-> PyInt(1),
     timezone |-> PyInt(c.timezone), language |-> PyStr(c.language)]

\* The rows of a bag that satisfy Keep, with their multiplicities.
Rows(table, Keep(_)) ==
    [r \in {x \in DOMAIN table : Keep(x)} |-> table[r]]

\* INSERT INTO users ...; UNIQUE(user_id) ON CONFLICT REPLACE.  A failed
\* CHECK raises sqlite3.IntegrityError, which add_user does not catch.
add_user_insert(t) ==
    /\ Running(t, "add_user", "insert_user")
    /\ Write(t)
    /\ Release(t)
    /\ LET row == add_user_row(call[t])
           Other(r) == r.user_id # row.user_id
       IN  IF ~users_constraints(row)
           THEN Raise(t, "IntegrityError") /\ UNCHANGED users
           ELSE /\ users' = Rows(users, Other) (+) SetToBag({row})
                /\ Return(t, "True")
    /\ UNCHANGED <<users_rates, currency_predictions, sqlite_sequence,
                   predictions_reactions, sessions, disk, call, snap, last_toggle>>

(***************************************************************************)
(* DBHandler.change_user                                                   *)
(***************************************************************************)
change_user(t, user_id, kwargs) ==
    /\ Begin(t, [op |-> "change_user", user_id |-> user_id, kwargs |-> kwargs,
                 i |-> 1], "check_user_exists")
    /\ UNCHANGED snap

\* if self.check_user_exists(user_id): ... else: return True; a user that
\* does not exist falls off the end of the function.
change_user_check(t) ==
    /\ Running(t, "change_user", "check_user_exists")
    /\ Release(t)
    /\ IF ~check_user_exists(call[t].user_id) THEN Return(t, "None")
       ELSE IF call[t].kwargs = <<>> THEN Return(t, "True")
       ELSE Goto(t, "update_user")
    /\ UNCHANGED <<tables, conns, call, snap, last_toggle>>

\* The columns of users.
users_columns ==
    {"user_id", "is_active", "is_pro", "is_staff", "to_notify_by_experts",
     "timezone", "language"}

\* for k, v in kwargs.items(): UPDATE users SET k = ? WHERE user_id = ?, a
\* datetime going in as its strftime text.  An unknown column is an
\* OperationalError, a failed CHECK an IntegrityError; both are re-raised as
\* ValueError and the row stays as the earlier statements left it.
change_user_update(t) ==
    /\ Running(t, "change_user", "update_user")
    /\ Write(t)
    /\ Release(t)
    /\ LET kv == call[t].kwargs[call[t].i]
           v == IF kv.v.t = "datetime" THEN strftime(kv.v.d) ELSE kv.v
           Mine(r) == r.user_id = PyInt(call[t].user_id)
           Other(r) == ~Mine(r)
           Changed(r) == [c \in DOMAIN r |-> IF c = kv.k THEN v ELSE r[c]]
           new == {Changed(r) : r \in DOMAIN Rows(users, Mine)}
       IN  IF kv.k \notin users_columns
           THEN Raise(t, "ValueError") /\ UNCHANGED <<users, call>>
           ELSE IF \E r \in new : ~users_constraints(r)
           THEN Raise(t, "ValueError") /\ UNCHANGED <<users, call>>
           ELSE /\ users' = Rows(users, Other) (+) SetToBag(new)
                /\ IF call[t].i = Len(call[t].kwargs)
                   THEN Return(t, "True") /\ UNCHANGED call
                   ELSE Goto(t, "update_user")
                        /\ call' = [call EXCEPT ![t].i = @ + 1]
    /\ UNCHANGED <<users_rates, currency_predictions, sqlite_sequence,
                   predictions_reactions, sessions, disk, snap, last_toggle>>

(***************************************************************************)
(* DBHandler.add_prediction                                                *)
(***************************************************************************)
add_prediction(t, user_id, iso_from, iso_to, value, up_to_date) ==
    LET c == [op |-> "add_prediction", user_id |-> user_id, iso_from |-> iso_from,
              iso_to |-> iso_to, value |-> value, up_to_date |-> up_to_date,
              now |-> NoDatetime]
        r == rangetest(0, PyInt(value))
    IN  /\ IF r = "ok" THEN Begin(t, c, "check_user_exists") ELSE Fail(t, c, r)
        /\ snap' = currency_predictions

\* Variant: the assert on up_to_date comes before the look-up of the user.
add_prediction_check_AssertFirst(t) ==
    /\ Running(t, "add_prediction", "check_user_exists")
    /\ Release(t)
    /\ LET f == check_datetime_in_future(utcnow, call[t].up_to_date, 0)
       IN  /\ call' = [call EXCEPT ![t].now = utcnow]
           /\ IF f.exc # "none" THEN Raise(t, f.exc)
              ELSE IF ~f.val THEN Raise(t, "AssertionError")
              ELSE IF ~check_user_exists(call[t].user_id) THEN Return(t, "False")
              ELSE Goto(t, "insert_prediction")
    /\ UNCHANGED <<tables, conns, snap, last_toggle>>

\* if self.check_user_exists(user_id): assert check_datetime_in_future(up_to_date)
add_prediction_check(t) ==
    /\ Running(t, "add_prediction", "check_user_exists")
    /\ Release(t)
    /\ IF ~check_user_exists(call[t].user_id)
       THEN Return(t, "False") /\ UNCHANGED call
       ELSE LET f == check_datetime_in_future(utcnow, call[t].up_to_date, 0)
            IN  /\ call' = [call EXCEPT ![t].now = utcnow]
                /\ IF f.exc # "none" THEN Raise(t, f.exc)
                   ELSE IF ~f.val THEN Raise(t, "AssertionError")
                   ELSE Goto(t, "insert_prediction")
    /\ UNCHANGED <<tables, conns, snap, last_toggle>>

\* INSERT INTO currency_predictions (...) VALUES (...): the id is the next
\* AUTOINCREMENT value, real_value takes its default NULL.
add_prediction_insert(t) ==
    /\ Running(t, "add_prediction", "insert_prediction")
    /\ Write(t)
    /\ LET id == sqlite_sequence + 1
           row == [user_id |-> PyInt(call[t].user_id),
                   iso_from |-> PyStr(call[t].iso_from),
                   iso_to |-> PyStr(call[t].iso_to),
                   value |-> PyInt(call[t].value),
                   up_to_date |-> DatetimeStr(call[t].up_to_date),
                   is_by_experts |-> PyInt(0),
                   real_value |-> PyNone]
       IN  /\ currency_predictions' =
                [i \in DOMAIN currency_predictions \cup {id} |->
                    IF i = id THEN row ELSE currency_predictions[i]]
           /\ sqlite_sequence' = id
    /\ Release(t)
    /\ Return(t, "True")
    /\ UNCHANGED <<users, predictions_reactions, sessions, users_rates, disk, call, snap, last_toggle>>

(***************************************************************************)
(* DBHandler.toggle_prediction_reaction                                    *)
(***************************************************************************)
toggle_prediction_reaction(t, pred_id, user_id, if_like) ==
    /\ Begin(t, [op |-> "toggle_prediction_reaction", pred_id |-> pred_id,
                 user_id |-> user_id, if_like |-> if_like],
             "check_prediction_exists")
    /\ UNCHANGED snap

\* if self.check_prediction_exists(pred_id) and ...
toggle_check_prediction(t) ==
    /\ Running(t, "toggle_prediction_reaction", "check_prediction_exists")
    /\ Release(t)
    /\ IF check_prediction_exists(call[t].pred_id)
       THEN Goto(t, "check_user_exists") ELSE Return(t, "None")
    /\ UNCHANGED <<tables, conns, call, snap, last_toggle>>

\* ... and self.check_user_exists(user_id):
toggle_check_user(t) ==
    /\ Running(t, "toggle_prediction_reaction", "check_user_exists")
    /\ Release(t)
    /\ IF check_user_exists(call[t].user_id)
       THEN Goto(t, "delete_reaction") ELSE Return(t, "None")
    /\ UNCHANGED <<tables, conns, call, snap, last_toggle>>

Toggled(t) ==
    [p \in DOMAIN last_toggle \cup {<<call[t].pred_id, call[t].user_id>>} |->
        IF p = <<call[t].pred_id, call[t].user_id>> THEN call[t].if_like
        ELSE last_toggle[p]]

\* Variant: the DELETE removes nothing.
toggle_delete_KeepsRows(t) ==
    /\ Running(t, "toggle_prediction_reaction", "delete_reaction")
    /\ Write(t)
    /\ Release(t)
    /\ IF call[t].if_like # "None"
       THEN Goto(t, "insert_reaction") /\ UNCHANGED last_toggle
       ELSE Return(t, "True") /\ last_toggle' = Toggled(t)
    /\ UNCHANGED <<tables, disk, call, snap>>

\* DELETE FROM predictions_reactions WHERE pred_id = ? and user_id = ?
toggle_delete(t) ==
    /\ Running(t, "toggle_prediction_reaction", "delete_reaction")
    /\ Write(t)
    /\ LET others == {r \in DOMAIN predictions_reactions :
                         ~(r.pred_id = call[t].pred_id /\ r.user_id = call[t].user_id)}
       IN  predictions_reactions' = [r \in others |-> predictions_reactions[r]]
    /\ Release(t)
    /\ IF call[t].if_like # "None"
       THEN Goto(t, "insert_reaction") /\ UNCHANGED last_toggle
       ELSE Return(t, "True") /\ last_toggle' = Toggled(t)
    /\ UNCHANGED <<users, currency_predictions, sqlite_sequence, sessions, users_rates, disk, call, snap>>

\* INSERT INTO predictions_reactions VALUES (?, ?, ?)
toggle_insert(t) ==
    /\ Running(t, "toggle_prediction_reaction", "insert_reaction")
    /\ Write(t)
    /\ predictions_reactions' =
         predictions_reactions (+)
         SetToBag({[pred_id |-> call[t].pred_id, user_id |-> call[t].user_id,
                    reaction |-> (call[t].if_like = "True")]})
    /\ Release(t)
    /\ Return(t, "True")
    /\ last_toggle' = Toggled(t)
    /\ UNCHANGED <<users, currency_predictions, sqlite_sequence, sessions, users_rates, disk, call, snap>>

(***************************************************************************)
(* SessionDBHandler.get_all_sessions                                       *)
(***************************************************************************)
get_all_sessions(t) ==
    /\ Begin(t, [op |-> "get_all_sessions"], "select_sessions")
    /\ UNCHANGED snap

\* SELECT * FROM sessions, on the session handler's connection
get_all_sessions_select(t) ==
    /\ Running(t, "get_all_sessions", "select_sessions")
    /\ Release(t)
    /\ Return(t, "list")
    /\ UNCHANGED <<tables, conns, call, snap, last_toggle>>

(***************************************************************************)
(* DBHandler.add_user_rate, DBHandler.get_user_rates                       *)
(***************************************************************************)
\* ','.join(check_times): the characters of the text, each item kept whole.
RECURSIVE join(_)
join(items) ==
    IF items = <<>> THEN <<>>
    ELSE IF Len(items) = 1 THEN <<items[1]>>
    ELSE <<items[1], ",">> \o join(Tail(items))

\* @rangetest(start_value=(0, inf)), start_value being passed by the caller;
\* percent_delta stays at its default.
add_user_rate(t, user_id, iso, start_value, check_times) ==
    LET c == [op |-> "add_user_rate", user_id |-> user_id, iso |-> iso,
              start_value |-> start_value, check_times |-> check_times]
        r == rangetest(0, PyInt(start_value))
    IN  /\ IF r = "ok" THEN Begin(t, c, "insert_rate") ELSE Fail(t, c, r)
        /\ snap' = users_rates

\* Variant: the INSERT adds the row next to the rows of the same key.
add_user_rate_insert_NoReplace(t) ==
    /\ Running(t, "add_user_rate", "insert_rate")
    /\ Write(t)
    /\ Release(t)
    /\ LET row == [user_id |-> call[t].user_id, iso |-> call[t].iso,
                   start_value |-> call[t].start_value,
                   check_times |-> join(call[t].check_times)]
       IN  users_rates' = users_rates (+) SetToBag({row})
    /\ Return(t, "True")
    /\ UNCHANGED <<users, currency_predictions, sqlite_sequence,
                   predictions_reactions, sessions, disk, call, snap, last_toggle>>

\* INSERT INTO users_rates VALUES (?, ?, ?, ?, ?); UNIQUE(user_id, iso) ON
\* CONFLICT REPLACE.  The connection never turns foreign keys on, so the
\* REFERENCES users(user_id) clause is not enforced.
add_user_rate_insert(t) ==
    /\ Running(t, "add_user_rate", "insert_rate")
    /\ Write(t)
    /\ Release(t)
    /\ LET row == [user_id |-> call[t].user_id, iso |-> call[t].iso,
                   start_value |-> call[t].start_value,
                   check_times |-> join(call[t].check_times)]
           Other(r) == ~(r.user_id = row.user_id /\ r.iso = row.iso)
       IN  users_rates' = Rows(users_rates, Other) (+) SetToBag({row})
    /\ Return(t, "True")
    /\ UNCHANGED <<users, currency_predictions, sqlite_sequence,
                   predictions_reactions, sessions, disk, call, snap, last_toggle>>

(***************************************************************************)
(* SessionDBHandler.add_session                                            *)
(***************************************************************************)
\* settings.DEFAULT_EXPERT_PREDICTIONS_NOTIFICATIONS_NUMBER
DefaultCount == 2

\* check_session_exists: len(res) > 0
check_session_exists(user_id) == \E r \in DOMAIN sessions : r.user_id = user_id

add_session(t, user_id) ==
    /\ Begin(t, [op |-> "add_session", user_id |-> user_id], "check_session_exists")
    /\ UNCHANGED snap

\* if not self.check_session_exists(user_id):
add_session_check(t) ==
    /\ Running(t, "add_session", "check_session_exists")
    /\ Release(t)
    /\ IF check_session_exists(call[t].user_id)
       THEN Return(t, "False") ELSE Goto(t, "insert_session")
    /\ UNCHANGED <<tables, conns, call, snap, last_toggle>>

\* INSERT INTO sessions(user_id) VALUES (?); UNIQUE(user_id) ON CONFLICT
\* REPLACE; the count takes its default.
add_session_insert(t) ==
    /\ Running(t, "add_session", "insert_session")
    /\ Write(t)
    /\ Release(t)
    /\ LET row == [user_id |-> call[t].user_id,
                   free_notifications_count |-> DefaultCount]
           Other(r) == r.user_id # row.user_id
       IN  sessions' = Rows(sessions, Other) (+) SetToBag({row})
    /\ Return(t, "True")
    /\ UNCHANGED <<users, users_rates, currency_predictions, sqlite_sequence,
                   predictions_reactions, disk, call, snap, last_toggle>>

(***************************************************************************)
(* SessionDBHandler.fetch_count                                            *)
(***************************************************************************)
\* The rows of users a statement on connection conn sees: a connection sees
\* the committed rows and the writes of its own open transaction, and only
\* DBHandler writes users.
users_seen_by(conn) == IF conn = "DBHandler" THEN users ELSE disk.users

\* row[key] for a row made by dict_factory, a dict keyed by column name:
\* any key that is not a column name is a KeyError.
dict_getitem(columns, key) ==
    IF key.t = "slice" THEN "TypeError"
    ELSE IF key.t = "str" /\ key.s \in columns THEN "ok" ELSE "KeyError"

\* The slice :n
PySlice(n) == [t |-> "slice", s |-> "", n |-> n, d |-> NoDatetime]

\* repr() of a count a call returns
repr(c) == CASE c = 0 -> "0" [] c = 1 -> "1" [] c = 2 -> "2" [] OTHER -> "3"

\* Variant: the rows are tuples, so is_user_pro[0][0] is the flag, and the
\* count selected next is returned (the UPDATE of decrease_count is a
\* further statement of its own).
fetch_count_select_is_pro_Tuple(t) ==
    /\ Running(t, "fetch_count", "select_is_pro")
    /\ Release(t)
    /\ LET is_user_pro == {r \in DOMAIN disk.users : r.user_id = PyInt(call[t].user_id)}
           row == CHOOSE r \in is_user_pro : TRUE
           stored == CHOOSE r \in DOMAIN sessions : r.user_id = call[t].user_id
       IN  IF is_user_pro = {} THEN Return(t, "None")
           ELSE IF Truthy(row.is_pro) THEN Return(t, "1")
           ELSE Return(t, repr(stored.free_notifications_count))
    /\ UNCHANGED <<tables, conns, call, snap, last_toggle>>

fetch_count(t, user_id, with_decrease) ==
    /\ Begin(t, [op |-> "fetch_count", user_id |-> user_id,
                 with_decrease |-> with_decrease], "check_session_exists")
    /\ UNCHANGED snap

\* if self.check_session_exists(user_id): ... (else falls off the end: None)
fetch_count_check(t) ==
    /\ Running(t, "fetch_count", "check_session_exists")
    /\ Release(t)
    /\ IF check_session_exists(call[t].user_id)
       THEN Goto(t, "select_is_pro") ELSE Return(t, "None")
    /\ UNCHANGED <<tables, conns, call, snap, last_toggle>>

\* is_user_pro = SELECT is_pro != 0 FROM users WHERE user_id = ?, on the
\* session handler's connection; if len(is_user_pro) > 0: is_user_pro[0][0].
\* The row is the dict {'is_pro != 0': ...}, so the subscript 0 raises
\* KeyError and the statements after it are never reached.
fetch_count_select_is_pro(t) ==
    /\ Running(t, "fetch_count", "select_is_pro")
    /\ Release(t)
    /\ LET is_user_pro == {r \in DOMAIN users_seen_by("SessionDBHandler") :
                              r.user_id = PyInt(call[t].user_id)}
       IN  IF is_user_pro = {} THEN Return(t, "None")
           ELSE Raise(t, dict_getitem({"is_pro != 0"}, PyInt(0)))
    /\ UNCHANGED <<tables, conns, call, snap, last_toggle>>

(***************************************************************************)
(* DBHandler.get_user_rates                                                *)
(***************************************************************************)
get_user_rates(t, user_id) ==
    /\ Begin(t, [op |-> "get_user_rates", user_id |-> user_id], "select_rates")
    /\ UNCHANGED snap

\* [tuple(list(rate[:-1]) + [rate[-1].split(',')]) for rate in
\*  SELECT u_r.iso, ... FROM users u JOIN users_rates u_r
\*  ON u.user_id = u_r.user_id AND u.user_id = ?]
\* Each rate is a dict, so rate[:-1] raises for the first row (TypeError:
\* unhashable type 'slice'); without rows the list is empty.
get_user_rates_select(t) ==
    /\ Running(t, "get_user_rates", "select_rates")
    /\ Release(t)
    /\ LET rates == {r \in DOMAIN users_rates :
                        r.user_id = call[t].user_id /\ check_user_exists(r.user_id)}
           columns == {"iso", "start_value", "percent_delta", "check_times"}
       IN  IF rates = {} THEN Return(t, <<>>)
           ELSE Raise(t, dict_getitem(columns, PySlice(-1)))
    /\ UNCHANGED <<tables, conns, call, snap, last_toggle>>

(***************************************************************************)
(* DBHandler.get_user                                                      *)
(***************************************************************************)
\* list(row) for a row made by dict_factory: the keys of the dict, i.e. the
\* column names in the order of the SELECT, not the values.
list_of_dict(columns) == [i \in DOMAIN columns |-> PyStr(columns[i])]

\* datetime.strptime(text, '%Y-%m-%d %H:%M:%S'): the datetime the text spells
\* out, without zone; any other text is a ValueError.
strptime(text) ==
    IF text.s = "datetime" /\ ~text.d.aware
    THEN Returned(PyDatetime(text.d)) ELSE Raised("ValueError")

get_user(t, user_id) ==
    /\ Begin(t, [op |-> "get_user", user_id |-> user_id, row |-> <<>>],
             "check_user_exists")
    /\ UNCHANGED snap

\* if self.check_user_exists(user_id): ... return None
get_user_check(t) ==
    /\ Running(t, "get_user", "check_user_exists")
    /\ Release(t)
    /\ IF check_user_exists(call[t].user_id)
       THEN Goto(t, "select_user") ELSE Return(t, "None")
    /\ UNCHANGED <<tables, conns, call, snap, last_toggle>>

\* user_id, is_active, is_pro, is_staff, to_notify_by_experts, timezone,
\* language = list(self.execute('SELECT * FROM users WHERE user_id = ?')[0])
get_user_select(t) ==
    /\ Running(t, "get_user", "select_user")
    /\ Release(t)
    /\ call' = [call EXCEPT ![t].row =
                   list_of_dict(<<"user_id", "is_active", "is_pro", "is_staff",
                                  "to_notify_by_experts", "timezone", "language">>)]
    /\ Goto(t, "select_rates")
    /\ UNCHANGED <<tables, conns, snap, last_toggle>>

\* rates = self.get_user_rates(user_id), with the user_id unpacked above: a
\* text equals no INTEGER user_id, so the SELECT finds no row.  Then
\* is_pro = strptime(is_pro, ...) if isinstance(is_pro, str) else is_pro,
\* and the 8-element list is returned.
get_user_rates_of(t) ==
    /\ Running(t, "get_user", "select_rates")
    /\ Release(t)
    /\ LET user_id == call[t].row[1]
           is_pro == call[t].row[3]
           rates == IF user_id.t # "int" THEN {}
                    ELSE {r \in DOMAIN users_rates : r.user_id = user_id.n}
           parsed == IF is_pro.t = "str" THEN strptime(is_pro) ELSE Returned(is_pro)
       IN  IF rates # {} THEN Raise(t, dict_getitem({"iso"}, PySlice(-1)))
           ELSE IF parsed.exc # "none" THEN Raise(t, parsed.exc)
           ELSE Return(t, <<call[t].row[1], call[t].row[2], parsed.val, call[t].row[4],
                            call[t].row[5], <<>>, call[t].row[6], call[t].row[7]>>)
    /\ UNCHANGED <<tables, conns, call, snap, last_toggle>>

(***************************************************************************)
(* DBHandler.get_max_liked_predictions                                     *)
(***************************************************************************)
\* WHERE datetime(p.up_to_date) > datetime(): the instant the stored text
\* spells out (a text without zone is read as UTC) is after the clock.
datetime_after_now(text) ==
    TotalSecondsBetween(add_offset(text.d, IF text.d.aware THEN text.d.off ELSE 0),
                        add_offset(utcnow, 0)) > 0

\* CAST(TOTAL(r.reaction) AS INT) over the reactions joined to prediction p:
\* a like is stored as 1 and a dislike as 0.
likes_diff(p) ==
    BagCardinality(Rows(predictions_reactions,
                        LAMBDA r : r.pred_id = p /\ r.reaction))

get_max_liked_predictions(t) ==
    /\ Begin(t, [op |-> "get_max_liked_predictions"], "select_liked")
    /\ UNCHANGED snap

\* [self.get_prediction(pred_data[0]) for pred_data in self.execute(...)]:
\* each row is a dict with the keys id and likes_diff.
get_max_liked_predictions_select(t) ==
    /\ Running(t, "get_max_liked_predictions", "select_liked")
    /\ Release(t)
    /\ LET rows == {p \in DOMAIN currency_predictions :
                       datetime_after_now(currency_predictions[p].up_to_date)}
       IN  IF rows = {} THEN Return(t, <<>>)
           ELSE Raise(t, dict_getitem({"id", "likes_diff"}, PyInt(0)))
    /\ UNCHANGED <<tables, conns, call, snap, last_toggle>>

(***************************************************************************)
(* DBHandler.get_actual_predictions, DBHandler.get_unverified_predictions  *)
(***************************************************************************)
\* WHERE datetime() > datetime(up_to_date): the clock is after the instant
\* the stored text spells out.
datetime_before_now(text) ==
    TotalSecondsBetween(add_offset(text.d, IF text.d.aware THEN text.d.off ELSE 0),
                        add_offset(utcnow, 0)) < 0

get_actual_predictions(t) ==
    /\ Begin(t, [op |-> "get_actual_predictions"], "select_actual")
    /\ UNCHANGED snap

\* [self.get_prediction(data[0]) for data in self.execute(...)]: each row is
\* a dict with the key id.
get_actual_predictions_select(t) ==
    /\ Running(t, "get_actual_predictions", "select_actual")
    /\ Release(t)
    /\ LET rows == {p \in DOMAIN currency_predictions :
                       datetime_after_now(currency_predictions[p].up_to_date)}
       IN  IF rows = {} THEN Return(t, <<>>)
           ELSE Raise(t, dict_getitem({"id"}, PyInt(0)))
    /\ UNCHANGED <<tables, conns, call, snap, last_toggle>>

get_unverified_predictions(t) ==
    /\ Begin(t, [op |-> "get_unverified_predictions"], "select_unverified")
    /\ UNCHANGED snap

\* The same comprehension over the rows WHERE datetime() >
\* datetime(up_to_date) AND real_value is NULL.
get_unverified_predictions_select(t) ==
    /\ Running(t, "get_unverified_predictions", "select_unverified")
    /\ Release(t)
    /\ LET rows == {p \in DOMAIN currency_predictions :
                       /\ datetime_before_now(currency_predictions[p].up_to_date)
                       /\ currency_predictions[p].real_value = PyNone}
       IN  IF rows = {} THEN Return(t, <<>>)
           ELSE Raise(t, dict_getitem({"id"}, PyInt(0)))
    /\ UNCHANGED <<tables, conns, call, snap, last_toggle>>

(***************************************************************************)
(* The process ends and is started again                                   *)
(***************************************************************************)
\* Both connections are dropped with their transactions open, which rolls
\* them back, and the handlers are constructed again on the same file.
restart ==
    /\ \A t \in Threads : pc[t] = "idle"
    /\ writer # "none"
    /\ users' = disk.users
    /\ users_rates' = disk.users_rates
    /\ currency_predictions' = disk.currency_predictions
    /\ sqlite_sequence' = disk.sqlite_sequence
    /\ predictions_reactions' = disk.predictions_reactions
    /\ sessions' = disk.sessions
    /\ writer' = "none"
    /\ call' = [t \in Threads |-> NoCall]
    /\ ret' = [t \in Threads |-> Raised("none yet")]
    /\ UNCHANGED <<LOCK, executing, disk, pc, snap, last_toggle>>
    /\ UNCHANGED <<utcnow, timevars, auxvars, mainvars>>

(***************************************************************************)
(* DBHandler.change_prediction                                             *)
(***************************************************************************)
\* **kwargs: the named arguments in the order given, each [k, v].
KwHas(kwargs, k) == \E i \in DOMAIN kwargs : kwargs[i].k = k

\* kwargs.get(k)
KwGet(kwargs, k) ==
    IF KwHas(kwargs, k)
    THEN kwargs[CHOOSE i \in DOMAIN kwargs : kwargs[i].k = k].v
    ELSE PyNone

\* kwargs[k] = v for a key already present
KwSet(kwargs, k, v) ==
    [i \in DOMAIN kwargs |-> IF kwargs[i].k = k THEN [k |-> k, v |-> v] ELSE kwargs[i]]

\* rangetest(value=(0, inf), real_value=(0, inf)) on the named arguments
change_prediction(t, id, kwargs) ==
    LET c == [op |-> "change_prediction", id |-> id, kwargs |-> kwargs, i |-> 1,
              now |-> utcnow]
        r1 == IF KwHas(kwargs, "value")
              THEN rangetest(0, KwGet(kwargs, "value")) ELSE "ok"
        r2 == IF KwHas(kwargs, "real_value")
              THEN rangetest(0, KwGet(kwargs, "real_value")) ELSE "ok"
    IN  /\ IF r1 # "ok" THEN Fail(t, c, r1)
           ELSE IF r2 # "ok" THEN Fail(t, c, r2)
           ELSE Begin(t, c, "check_prediction_exists")
        /\ UNCHANGED snap

\* The asserts on iso_from / iso_to
change_prediction_isos_ok(kwargs) ==
    PyOr(KwGet(kwargs, "iso_from"), KwGet(kwargs, "iso_to")).t = "None"

\* if self.check_prediction_exists(id): the validation of the parameters
change_prediction_check(t) ==
    /\ Running(t, "change_prediction", "check_prediction_exists")
    /\ Release(t)
    /\ LET kwargs == call[t].kwargs
           up_to_date == KwGet(kwargs, "up_to_date")
           f == check_datetime_in_future(utcnow, up_to_date.d, 0)
           Loop(kw) == IF kw = <<>> THEN Return(t, "True") ELSE Goto(t, "update")
       IN  IF ~check_prediction_exists(call[t].id)
           THEN Return(t, "None") /\ UNCHANGED call
           ELSE IF ~change_prediction_isos_ok(kwargs)
           THEN Raise(t, "AssertionError") /\ UNCHANGED call
           ELSE IF KwHas(kwargs, "user_id")
           THEN Raise(t, "AssertionError") /\ UNCHANGED call
           ELSE IF up_to_date.t # "datetime"
           THEN Loop(kwargs) /\ UNCHANGED call
           ELSE IF f.exc # "none"
           THEN Raise(t, f.exc) /\ UNCHANGED call
           ELSE IF ~f.val
           THEN Raise(t, "AssertionError") /\ UNCHANGED call
           ELSE /\ call' = [call EXCEPT ![t].kwargs =
                               KwSet(kwargs, "up_to_date", DatetimeStr(up_to_date.d))]
                /\ Loop(kwargs)
    /\ UNCHANGED <<tables, conns, snap, last_toggle>>

\* for k, v in kwargs.items():
\*     UPDATE currency_predictions SET k = ? WHERE id = ?
change_prediction_update(t) ==
    /\ Running(t, "change_prediction", "update")
    /\ Write(t)
    /\ LET kv == call[t].kwargs[call[t].i]
           id == call[t].id
       IN  currency_predictions' =
             IF id \in DOMAIN currency_predictions
             THEN [currency_predictions EXCEPT ![id] =
                      [c \in DOMAIN currency_predictions[id] |->
                          IF c = kv.k THEN kv.v ELSE currency_predictions[id][c]]]
             ELSE currency_predictions
    /\ Release(t)
    /\ IF call[t].i = Len(call[t].kwargs)
       THEN Return(t, "True") /\ UNCHANGED call
       ELSE Goto(t, "update") /\ call' = [call EXCEPT ![t].i = @ + 1]
    /\ UNCHANGED <<users, sqlite_sequence, predictions_reactions, sessions, users_rates, disk,
                   snap, last_toggle>>

(***************************************************************************)
(* DBHandler.delete_prediction                                             *)
(***************************************************************************)
delete_prediction(t, pred_id) ==
    /\ Begin(t, [op |-> "delete_prediction", pred_id |-> pred_id], "delete_prediction")
    /\ UNCHANGED snap

\* DELETE FROM currency_predictions WHERE id = ?.  Foreign keys are off on
\* the connection, so ON DELETE CASCADE of predictions_reactions does nothing.
delete_prediction_delete(t) ==
    /\ Running(t, "delete_prediction", "delete_prediction")
    /\ Write(t)
    /\ Release(t)
    /\ currency_predictions' =
         [i \in DOMAIN currency_predictions \ {call[t].pred_id} |->
             currency_predictions[i]]
    /\ Return(t, "True")
    /\ UNCHANGED <<users, users_rates, sqlite_sequence, predictions_reactions,
                   sessions, disk, call, snap, last_toggle>>

(***************************************************************************)
(* The callers of the storage layer                                        *)
(***************************************************************************)
MaxPredictions == 2
MaxTick == 1
MaxKwargs == 2

UserIds == {1, 2}
PredIds == 1 .. MaxPredictions
IfLike == {"True", "False", "None"}

\* The clock starts one second into a minute, so that second 0 is in the past.
FixedNow == Datetime(2024, 1, 15, 12, 0, 1, FALSE, 0)

\* Datetimes s seconds into the minute the clock starts in: aware (UTC), naive.
AwareAt(s) == [FixedNow EXCEPT !.second = s, !.aware = TRUE]
NaiveAt(s) == [FixedNow EXCEPT !.second = s]

\* The clock advances by one second.
Tick ==
    /\ utcnow.second < FixedNow.second + MaxTick
    /\ utcnow' = [utcnow EXCEPT !.second = @ + 1]
    /\ UNCHANGED <<timevars, auxvars, mainvars, dbvars>>

\* add_prediction calls still to insert their row
Inserting == {t \in Threads : call[t].op = "add_prediction" /\ pc[t] # "idle"}
Room == sqlite_sequence + Cardinality(Inserting) < MaxPredictions

\* Named arguments a caller may pass to change_prediction.
KwSamples ==
    {[k |-> "iso_from", v |-> x] : x \in {PyNone, PyStr(""), PyStr("BTC")}}
    \cup {[k |-> "iso_to", v |-> x] : x \in {PyNone, PyStr(""), PyStr("BTC")}}
    \cup {[k |-> "user_id", v |-> PyInt(2)]}
    \cup {[k |-> "value", v |-> PyInt(x)] : x \in {0, 3}}
    \cup {[k |-> "real_value", v |-> PyInt(5)]}
    \cup {[k |-> "up_to_date", v |-> PyDatetime(AwareAt(s))] : s \in {0, 3}}

RECURSIVE KwSeqs(_)
KwSeqs(n) ==
    IF n = 0 THEN {<<>>}
    ELSE LET shorter == KwSeqs(n - 1)
         IN  shorter \cup
             {Append(kw, a) : <<kw, a>> \in
                 {p \in shorter \X KwSamples : ~KwHas(p[1], p[2].k)}}

\* One statement of a call in progress.
Statement(t) ==
    \/ add_user_insert(t)
    \/ add_prediction_check(t)
    \/ add_prediction_insert(t)
    \/ toggle_check_prediction(t)
    \/ toggle_check_user(t)
    \/ toggle_delete(t)
    \/ toggle_insert(t)

\* Spec: two threads calling the storage layer concurrently.
NextDB ==
    \E t \in Threads :
        \/ execute(t)
        \/ Statement(t)
        \/ get_all_sessions_select(t)
        \/ add_user(t, 1, PyInt(0), 0, "en")
        \/ Room /\ add_prediction(t, 1, "USD", "EUR", 1, AwareAt(2))
        \/ \E l \in IfLike : toggle_prediction_reaction(t, 1, 1, l)
        \/ get_all_sessions(t)

\* SpecSeq: one caller reacting to predictions.
NextSeq ==
    \/ execute(Caller)
    \/ Statement(Caller)
    \/ \E u \in UserIds : add_user(Caller, u, PyInt(0), 0, "en")
    \/ Room /\ add_prediction(Caller, 1, "USD", "EUR", 1, AwareAt(2))
    \/ \E p \in PredIds, u \in UserIds, l \in IfLike :
          toggle_prediction_reaction(Caller, p, u, l)

\* The up_to_date values a caller passes: every second the clock can show,
\* one before and one after, and a datetime without a zone.
UpToDates ==
    {AwareAt(s) : s \in 0 .. FixedNow.second + MaxTick + 1} \cup {NaiveAt(2)}

\* SpecPred: one caller creating predictions while time passes.
NextPred ==
    \/ Tick
    \/ execute(Caller)
    \/ add_user_insert(Caller)
    \/ add_prediction_check(Caller)
    \/ add_prediction_insert(Caller)
    \/ \E u \in UserIds : add_user(Caller, u, PyInt(0), 0, "en")
    \/ \E u \in UserIds, x \in {0, 1}, d \in UpToDates :
          Room /\ add_prediction(Caller, u, "USD", "EUR", x, d)

Kwargs == KwSeqs(MaxKwargs)

\* SpecChange: one caller changing the predictions of user 1.
NextChange ==
    \/ execute(Caller)
    \/ add_user_insert(Caller)
    \/ add_prediction_check(Caller)
    \/ add_prediction_insert(Caller)
    \/ change_prediction_check(Caller)
    \/ change_prediction_update(Caller)
    \/ add_user(Caller, 1, PyInt(0), 0, "en")
    \/ sqlite_sequence = 0 /\ add_prediction(Caller, 1, "USD", "EUR", 1, AwareAt(2))
    \/ \E p \in PredIds, kw \in Kwargs : change_prediction(Caller, p, kw)

\* The up_to_date values a caller passes to change_prediction: a timestamp
\* object or its text, each in the past and in the future.
UpToDateSamples ==
    {[k |-> "up_to_date", v |-> PyDatetime(AwareAt(s))] : s \in {0, 3}}
    \cup {[k |-> "up_to_date", v |-> DatetimeStr(AwareAt(s))] : s \in {0, 3}}
    \cup {[k |-> "value", v |-> PyInt(3)]}

UpToDateKwargs ==
    {kw \in UNION {[1 .. n -> UpToDateSamples] : n \in 1 .. MaxKwargs} :
        \A i, j \in DOMAIN kw : i # j => kw[i].k # kw[j].k}

\* SpecUpToDate: one caller moving the target datetime of a prediction while
\* time passes.
NextUpToDate ==
    \/ Tick
    \/ execute(Caller)
    \/ add_user_insert(Caller)
    \/ add_prediction_check(Caller)
    \/ add_prediction_insert(Caller)
    \/ change_prediction_check(Caller)
    \/ change_prediction_update(Caller)
    \/ add_user(Caller, 1, PyInt(0), 0, "en")
    \/ Room /\ add_prediction(Caller, 1, "USD", "EUR", 1, AwareAt(2))
    \/ \E p \in PredIds, kw \in UpToDateKwargs : change_prediction(Caller, p, kw)

\* What callers pass for a user's profile and subscriptions; timezone 13 and
\* language "e" break the CHECK constraints of users.
IsPros == {PyInt(0), PyDatetime(NaiveAt(5))}
Timezones == {0, 13}
Languages == {"en", "e"}
Isos == {"BTC", "EUR"}
StartValues == {0, 1}
CheckTimes == {<<>>, <<"09:00", "10:00">>}

\* SpecUsers: one caller registering users and their subscriptions.
NextUsers ==
    \/ execute(Caller)
    \/ add_user_insert(Caller)
    \/ add_user_rate_insert(Caller)
    \/ \E u \in UserIds, p \in IsPros : add_user(Caller, u, p, 0, "en")
    \/ \E u \in UserIds, i \in Isos, v \in StartValues, c \in CheckTimes :
          add_user_rate(Caller, u, i, v, c)

\* The database files the process may be started on: a new one, and ones
\* that hold committed rows for user 1 (free or premium) and its session.
StoredUser(is_pro) ==
    add_user_row([user_id |-> 1, is_pro |-> is_pro, timezone |-> 0, language |-> "en"])
Stores ==
    {EmptyStore}
    \cup {[EmptyStore EXCEPT !.users = SetToBag({StoredUser(p)}), !.sessions = s] :
            p \in IsPros,
            s \in {EmptyBag,
                   SetToBag({[user_id |-> 1, free_notifications_count |-> DefaultCount]})}}

\* SpecSession: one caller using both handlers, each on its own connection.
NextSession ==
    \/ execute(Caller)
    \/ write_locked(Caller)
    \/ add_user_insert(Caller)
    \/ add_user_rate_insert(Caller)
    \/ add_session_check(Caller)
    \/ add_session_insert(Caller)
    \/ fetch_count_check(Caller)
    \/ fetch_count_select_is_pro(Caller)
    \/ restart
    \/ \E u \in UserIds, p \in IsPros : add_user(Caller, u, p, 0, "en")
    \/ \E u \in UserIds : add_user_rate(Caller, u, "BTC", 1, <<>>)
    \/ \E u \in UserIds : add_session(Caller, u)
    \/ \E u \in UserIds, d \in BOOLEAN : fetch_count(Caller, u, d)

\* SpecDelete: one caller reacting to predictions and deleting them.
NextDelete ==
    \/ execute(Caller)
    \/ Statement(Caller)
    \/ delete_prediction_delete(Caller)
    \/ add_user(Caller, 1, PyInt(0), 0, "en")
    \/ Room /\ add_prediction(Caller, 1, "USD", "EUR", 1, AwareAt(2))
    \/ \E p \in PredIds, l \in IfLike : toggle_prediction_reaction(Caller, p, 1, l)
    \/ \E p \in PredIds : delete_prediction(Caller, p)

\* Named arguments a caller may pass to change_user.
UserKwSamples ==
    {[k |-> "timezone", v |-> PyInt(x)] : x \in {5, 13}}
    \cup {[k |-> "language", v |-> PyStr(x)] : x \in {"eng", "e"}}
    \cup {[k |-> "is_pro", v |-> PyDatetime(AwareAt(7))]}
    \cup {[k |-> "nickname", v |-> PyStr("x")]}

UserKwargs ==
    {kw \in UNION {[1 .. n -> UserKwSamples] : n \in 0 .. MaxKwargs} :
        \A i, j \in DOMAIN kw : i # j => kw[i].k # kw[j].k}

\* SpecProfile: one caller creating, changing and reading user profiles.
NextProfile ==
    \/ execute(Caller)
    \/ add_user_insert(Caller)
    \/ change_user_check(Caller)
    \/ change_user_update(Caller)
    \/ \E p \in IsPros, z \in Timezones, l \in Languages : add_user(Caller, 1, p, z, l)
    \/ \E u \in UserIds, kw \in UserKwargs : change_user(Caller, u, kw)
    \/ get_user_check(Caller)
    \/ get_user_select(Caller)
    \/ get_user_rates_of(Caller)
    \/ \E u \in UserIds : get_user(Caller, u)

\* SpecRates: one caller subscribing users and reading the subscriptions.
NextRates ==
    \/ execute(Caller)
    \/ add_user_insert(Caller)
    \/ add_user_rate_insert(Caller)
    \/ get_user_rates_select(Caller)
    \/ \E u \in UserIds : add_user(Caller, u, PyInt(0), 0, "en")
    \/ \E u \in UserIds, i \in Isos, c \in CheckTimes \cup {<<"09:00">>} :
          add_user_rate(Caller, u, i, 1, c)
    \/ \E u \in UserIds : get_user_rates(Caller, u)

(***************************************************************************)
(* utils/decorators.py: rangetest                                          *)
(***************************************************************************)
\* assert low < value < high (strict_range) or low <= value <= high.
\* Comparing an int with None is a TypeError.
in_range_Inclusive(strict_range, low, value, high) ==
    IF value.t # "int" THEN "TypeError"
    ELSE IF low <= value.n /\ value.n <= high THEN "ok" ELSE "AssertionError"

in_range(strict_range, low, value, high) ==
    IF value.t # "int" THEN "TypeError"
    ELSE IF strict_range
         THEN IF low < value.n /\ value.n < high THEN "ok" ELSE "AssertionError"
         ELSE IF low <= value.n /\ value.n <= high THEN "ok" ELSE "AssertionError"

\* The decorated function: def f(self, arg=..., other=...), wrapped by
\* rangetest(strict_range, arg=(RangeLow, RangeHigh), other=(RangeLow, RangeHigh)).
RangeLow == 0
RangeHigh == 3
allargs == <<"self", "arg", "other">>
privates ==
    <<[argname |-> "arg", low |-> RangeLow, high |-> RangeHigh],
      [argname |-> "other", low |-> RangeLow, high |-> RangeHigh]>>

\* allvars.index(argname)
index(allvars, argname) == CHOOSE pos \in DOMAIN allvars : allvars[pos] = argname

\* for argname, (low, high) in privates.items(): the first assertion that
\* fails ends the loop; i is the position of the loop in privates.
RECURSIVE wrapper_loop(_, _, _, _)
wrapper_loop(strict_range, args, kwargs, i) ==
    IF i > Len(privates) THEN "ok"
    ELSE LET p == privates[i]
             allvars == SubSeq(allargs, 1, Len(args))
             r == IF KwHas(kwargs, p.argname)
                  THEN in_range(strict_range, p.low, KwGet(kwargs, p.argname), p.high)
                  ELSE IF \E pos \in DOMAIN allvars : allvars[pos] = p.argname
                  THEN in_range(strict_range, p.low,
                                args[index(allvars, p.argname)], p.high)
                  ELSE "ok"
         IN  IF r # "ok" THEN r
             ELSE wrapper_loop(strict_range, args, kwargs, i + 1)

\* wrapper(*args, **kwargs): the checks, then return func(*args, **kwargs)
wrapper ==
    /\ r_pc = "input"
    /\ r_pc' = "done"
    /\ LET r == wrapper_loop(r_call.strict_range, r_call.args, r_call.kwargs, 1)
       IN  /\ r_body' = (r = "ok")
           /\ r_result' = IF r = "ok" THEN Returned("func") ELSE Raised(r)
    /\ UNCHANGED <<utcnow, r_call, timevars, logvars, parservars, exchvars, loopvars,
                   mainvars, dbvars>>

\* Values passed for a checked parameter, and the ways of passing the two
\* parameters: positionally, by keyword, or not at all.
RangeValues == {PyInt(v) : v \in RangeLow - 1 .. RangeHigh + 1} \cup {PyNone}
Self == PyStr("self")
RangeCalls ==
    {[strict_range |-> s, args |-> a, kwargs |-> k] :
        s \in BOOLEAN,
        a \in {<<Self>>} \cup {<<Self, v>> : v \in RangeValues}
               \cup {<<Self, v, w>> : v, w \in RangeValues},
        k \in {<<>>} \cup {<<[k |-> n, v |-> v]>> : n \in {"arg", "other"}, v \in RangeValues}
               \cup {<<[k |-> "arg", v |-> v], [k |-> "other", v |-> w]>> :
                        v, w \in RangeValues}}

\* A call binds each parameter once: a parameter passed positionally is not
\* passed by keyword as well.
WellFormed(c) ==
    \A i \in DOMAIN c.kwargs :
        ~\E pos \in 1 .. Len(c.args) : allargs[pos] = c.kwargs[i].k

InitRange ==
    /\ r_pc = "input"
    /\ r_call \in {c \in RangeCalls : WellFormed(c)}
    /\ r_result = Raised("pending")
    /\ r_body = FALSE

IdleRange ==
    /\ r_pc = "idle"
    /\ r_call = [strict_range |-> TRUE, args |-> <<>>, kwargs |-> <<>>]
    /\ r_result = Raised("pending")
    /\ r_body = FALSE

(***************************************************************************)
(* models/logger.py                                                        *)
(***************************************************************************)
\* Logger.MAX_SIZE = 100 * 1024 bytes
MAX_SIZE == 102400

\* Logger.LOG_LEVELS[kind]['level']
LOG_LEVELS == [error |-> 40, warning |-> 30, info |-> 20, debug |-> 10]

\* kind.lower() and len(kind), for the kinds a caller passes
lower(kind) == IF kind = "ERROR" THEN "error" ELSE kind
len(kind) ==
    CASE kind \in {"info"} -> 4
      [] kind \in {"debug", "error", "ERROR", "trace"} -> 5
      [] OTHER -> 7

\* self.LOG_LEVELS[self.log_level]['level'] <= info['level']
level_passes_Above(min_level, info) == LOG_LEVELS[min_level] < LOG_LEVELS[info]
level_passes(min_level, info) == LOG_LEVELS[min_level] <= LOG_LEVELS[info]

\* open(..., 'w'): an empty file, open
NewFile == [size |-> 0, lines |-> 0, closed |-> FALSE]

\* Logger.__init__: log_count = 0, log_level = 'info', logfile = create_logfile()
InitLogger ==
    /\ log_level = "info"
    /\ log_count = 1
    /\ logfile = 1
    /\ logfiles = <<NewFile>>
    /\ console = 0
    /\ l_call = [op |-> "none"]
    /\ l_ret = Raised("pending")
    /\ l_calls = 0

\* The bytes of "[%Y-%m-%d %H:%M:%S] [KIND] message\n", the message taking
\* bytes bytes: 22 for the timestamp and its space, len(kind) + 3 for the tag
\* and its space, 1 for the newline.
LineSize(kind, bytes) == 22 + (len(kind) + 3) + bytes + 1

\* Variant of logfile_size_ok: a file of exactly MAX_SIZE bytes is still ok.
logfile_size_ok_AtMost(size) == size <= MAX_SIZE

\* logfile_size_ok: os.path.getsize(self.logfile.name) < self.MAX_SIZE
logfile_size_ok(size) == size < MAX_SIZE

\* Logger.log(message, kind=kind), message taking bytes bytes in utf-8:
\* write, flush, cprint, then update_logfile() (close, create_logfile) when
\* the size is not ok.  Writing to a closed file is a ValueError.
log(kind, bytes) ==
    LET made == [op |-> "log", kind |-> kind, bytes |-> bytes, logfile |-> logfile]
        info == lower(kind)
        after == [logfiles[logfile] EXCEPT !.size = @ + LineSize(kind, bytes),
                                          !.lines = @ + 1]
    IN  /\ l_call' = made
        /\ l_calls' = l_calls + 1
        /\ IF info \notin DOMAIN LOG_LEVELS
           THEN /\ l_ret' = Raised("AssertionError")
                /\ UNCHANGED <<log_count, logfile, logfiles, console>>
           ELSE IF ~level_passes(log_level, info)
           THEN /\ l_ret' = Returned("None")
                /\ UNCHANGED <<log_count, logfile, logfiles, console>>
           ELSE IF logfiles[logfile].closed
           THEN /\ l_ret' = Raised("ValueError")
                /\ UNCHANGED <<log_count, logfile, logfiles, console>>
           ELSE /\ l_ret' = Returned("None")
                /\ console' = console + 1
                /\ IF logfile_size_ok(after.size)
                   THEN /\ logfiles' = [logfiles EXCEPT ![logfile] = after]
                        /\ UNCHANGED <<log_count, logfile>>
                   ELSE /\ log_count' = log_count + 1
                        /\ logfile' = log_count + 1
                        /\ logfiles' =
                             [n \in 1 .. Len(logfiles) + 1 |->
                                IF n = log_count + 1 THEN NewFile
                                ELSE IF n = logfile THEN [after EXCEPT !.closed = TRUE]
                                ELSE logfiles[n]]
        /\ UNCHANGED <<log_level, utcnow, timevars, rangevars, parservars, exchvars, loopvars, mainvars,
                       dbvars>>

\* Logger.set_level(level)
set_level(level) ==
    /\ l_call' = [op |-> "set_level", level |-> level]
    /\ l_calls' = l_calls + 1
    /\ IF level \in DOMAIN LOG_LEVELS
       THEN log_level' = level /\ l_ret' = Returned("None")
       ELSE l_ret' = Raised("AssertionError") /\ UNCHANGED log_level
    /\ UNCHANGED <<log_count, logfile, logfiles, console>>
    /\ UNCHANGED <<utcnow, timevars, rangevars, parservars, exchvars, loopvars, mainvars,
                   dbvars>>

\* The kinds and levels callers pass, and the sizes of their messages: the
\* empty message, and the two messages whose info line is one byte short of
\* half MAX_SIZE and exactly half MAX_SIZE.
Kinds == {"debug", "info", "ERROR", "trace"}
Levels == {"debug", "info", "warning", "error", "trace"}
HalfMessage == MAX_SIZE \div 2 - LineSize("info", 0)
MessageBytes == {0, HalfMessage - 1, HalfMessage}
MaxLogCalls == 6

NextLogger ==
    \/ \E k \in Kinds, b \in MessageBytes : l_calls < MaxLogCalls /\ log(k, b)
    \/ \E l \in Levels : l_calls < MaxLogCalls /\ set_level(l)

(***************************************************************************)
(* models/parsers.py: Parser and CurrencyParser                            *)
(***************************************************************************)
\* Two parsers constructed with the same proxy_list object, as the parsers
\* of CurrencyExchanger are.
Parsers == {"p1", "p2"}

\* What one session.get(...) brings: a ConnectionError, or a response with
\* its status and the text of the element the selector finds ("" when it
\* finds none).
ConnectionError == [error |-> TRUE, ok |-> FALSE, element |-> FALSE, text |-> ""]
Response(ok, element, text) ==
    [error |-> FALSE, ok |-> ok, element |-> element, text |-> text]
Unbound == [error |-> TRUE, ok |-> FALSE, element |-> FALSE, text |-> "unbound"]
Outcomes ==
    {ConnectionError, Response(TRUE, FALSE, ""),
     Response(TRUE, TRUE, "$2"), Response(TRUE, TRUE, "3"), Response(TRUE, TRUE, "n/a")}

\* Parser.test_response: response.ok and get_element(...) is not None
test_response(response) == response.ok /\ response.element

\* float(rate) after strip, removal of '$' and the separator rule, for the
\* texts the pages show: a number, or ValueError
float(text) ==
    CASE text = "$2" -> Returned(2)
      [] text = "3" -> Returned(3)
      [] OTHER -> Raised("ValueError")

\* CurrencyParser.default_value
default_value == 9

\* random.shuffle(l): any order of the entries of l.  The proxies of l are
\* distinct, the other entries are None.
Shuffles(l) ==
    LET named == {l[i] : i \in DOMAIN l} \ {"None"}
        places == {f \in [named -> DOMAIN l] :
                      \A a, b \in named : a # b => f[a] # f[b]}
    IN  {[i \in DOMAIN l |->
            IF \E a \in named : f[a] = i
            THEN CHOOSE a \in named : f[a] = i ELSE "None"] : f \in places}

None5 == <<"None", "None", "None", "None", "None">>

\* No request made yet in this call.
NoAttempt ==
    [made |-> FALSE, proxy |-> "None", session |-> 0, error |-> FALSE,
     total |-> 0, direct |-> 0]

\* Parser.__init__ (both parsers), and CurrencyParser.__init__ up to its
\* call of update_value.
ProxyLists == {<<>>, <<"a">>}
InitParser ==
    /\ proxy_list \in ProxyLists
    /\ proxies = <<>>
    /\ session = [p \in Parsers |-> 1]
    /\ p_value = [p \in Parsers |-> 0]
    /\ p_call = [op |-> "none", parser |-> "p1", safe |-> TRUE]
    /\ p_pc = "idle"
    /\ p_i = 1
    /\ q = Unbound
    /\ p_ret = Raised("pending")
    /\ p_responses = 0
    /\ last_parsed = [p \in Parsers |-> 0]
    /\ attempted = NoAttempt

notparser == <<utcnow, timevars, rangevars, logvars, exchvars, loopvars, mainvars, dbvars>>

\* get_response, lines 49-51: proxies is self.proxy_list itself when that
\* list is not empty, and a new list otherwise; shuffle, then extend by
\* five None.
get_response_begin(c) ==
    /\ p_pc = "idle"
    /\ p_call' = c
    /\ p_responses' = p_responses + 1
    /\ IF proxy_list # <<>>
       THEN \E shuffled \in Shuffles(proxy_list) :
               /\ proxy_list' = shuffled \o None5
               /\ proxies' = shuffled \o None5
       ELSE proxies' = None5 /\ UNCHANGED proxy_list
    /\ p_i' = 1
    /\ q' = Unbound
    /\ p_pc' = "loop"
    /\ attempted' = NoAttempt
    /\ UNCHANGED <<session, p_value, p_ret, last_parsed, notparser>>

\* One turn of the loop: q = session.get(link, proxy); break when
\* test_response(q); on ConnectionError a new Session.
get_response_loop ==
    /\ p_pc = "loop"
    /\ p_i <= Len(proxies)
    /\ \E o \in Outcomes :
          /\ attempted' =
               [made |-> TRUE, proxy |-> proxies[p_i],
                session |-> session[p_call.parser], error |-> o = ConnectionError,
                total |-> attempted.total + 1,
                direct |-> attempted.direct + (IF proxies[p_i] = "None" THEN 1 ELSE 0)]
          /\ IF o = ConnectionError
             THEN /\ session' = [session EXCEPT ![p_call.parser] = @ + 1]
                  /\ p_i' = p_i + 1
                  /\ p_pc' = IF p_i = Len(proxies) THEN "return" ELSE "loop"
                  /\ UNCHANGED q
             ELSE /\ q' = o
                  /\ IF test_response(o)
                     THEN p_pc' = "return" /\ UNCHANGED p_i
                     ELSE /\ p_i' = p_i + 1
                          /\ p_pc' = IF p_i = Len(proxies) THEN "return" ELSE "loop"
                  /\ UNCHANGED session
    /\ UNCHANGED <<proxy_list, proxies, p_value, p_call, p_ret, p_responses,
                   last_parsed, notparser>>

\* return q: q was never assigned when every attempt raised ConnectionError
return_q == IF q = Unbound THEN Raised("UnboundLocalError") ELSE Returned(q)

get_response(p) ==
    get_response_begin([op |-> "get_response", parser |-> p, safe |-> FALSE])

get_response_return ==
    /\ p_pc = "return" /\ p_call.op = "get_response"
    /\ p_ret' = return_q
    /\ p_pc' = "idle"
    /\ UNCHANGED <<proxy_list, proxies, session, p_value, p_call, p_i, q, p_responses,
                   last_parsed, attempted, notparser>>

\* CurrencyParser.get_rate on the response get_response returned:
\* ParsingError when the selector finds nothing, else float(...) of the text
get_rate(response) ==
    IF response.exc # "none" THEN response
    ELSE IF ~response.val.element THEN Raised("ParsingError")
    ELSE float(response.val.text)

\* CurrencyParser.update_value(safe=safe): get_rate() starts with
\* get_response()
update_value(p, safe) ==
    get_response_begin([op |-> "update_value", parser |-> p, safe |-> safe])

\* Variant: a failed parse keeps the value cached before.
update_value_finish_KeepLast ==
    /\ p_pc = "return" /\ p_call.op = "update_value"
    /\ LET rate == get_rate(return_q)
           p == p_call.parser
       IN  IF rate.exc = "none"
           THEN /\ p_value' = [p_value EXCEPT ![p] = rate.val]
                /\ last_parsed' = [last_parsed EXCEPT ![p] = rate.val]
                /\ p_ret' = Returned("True")
           ELSE IF rate.exc = "ParsingError" /\ p_call.safe
           THEN /\ p_ret' = Returned("False")
                /\ UNCHANGED <<p_value, last_parsed>>
           ELSE /\ p_ret' = rate
                /\ UNCHANGED <<p_value, last_parsed>>
    /\ p_pc' = "idle"
    /\ UNCHANGED <<proxy_list, proxies, session, p_call, p_i, q, p_responses,
                   attempted, notparser>>

\* try: self.value = self.get_rate().get('USD'); return True
\* except ParsingError: if not safe: raise; self.value = default_value;
\* return False
update_value_finish ==
    /\ p_pc = "return" /\ p_call.op = "update_value"
    /\ LET rate == get_rate(return_q)
           p == p_call.parser
       IN  IF rate.exc = "none"
           THEN /\ p_value' = [p_value EXCEPT ![p] = rate.val]
                /\ last_parsed' = [last_parsed EXCEPT ![p] = rate.val]
                /\ p_ret' = Returned("True")
           ELSE IF rate.exc = "ParsingError" /\ p_call.safe
           THEN /\ p_value' = [p_value EXCEPT ![p] = default_value]
                /\ p_ret' = Returned("False")
                /\ UNCHANGED last_parsed
           ELSE /\ p_ret' = rate
                /\ UNCHANGED <<p_value, last_parsed>>
    /\ p_pc' = "idle"
    /\ UNCHANGED <<proxy_list, proxies, session, p_call, p_i, q, p_responses,
                   attempted, notparser>>

MaxResponses == 2

NextParser ==
    \/ get_response_loop
    \/ get_response_return
    \/ update_value_finish
    \/ \E p \in Parsers : p_responses < MaxResponses /\ get_response(p)
    \/ \E p \in Parsers : p_responses < MaxResponses /\ update_value(p, TRUE)

(***************************************************************************)
(* models/parsers.py: FreecurrencyratesParser and CurrencyExchanger        *)
(***************************************************************************)
\* The keys of CurrencyExchanger.parsers a caller asks for, and the iso
\* codes the site of the default parser has a page for.
Dedicated == {"BTC", "RTS"}
SitePages == {"EUR", "USD"}

\* What every request of one get_rate call brings for a page: a
\* ConnectionError while the network is down; otherwise the page with its
\* element and the text in it ("" when the element is missing), or an
\* error page when there is no such page.
fetch(env, page_exists) ==
    IF env.net = "down" THEN ConnectionError
    ELSE IF page_exists THEN Response(TRUE, env.text # "", env.text)
    ELSE Response(FALSE, FALSE, "")

\* Parser.get_response when every request of the call brings o: the last
\* response, or no response at all
get_response_of(o) ==
    IF o = ConnectionError THEN Raised("UnboundLocalError") ELSE Returned(o)

\* FreecurrencyratesParser.check_currency_exists: res.ok, and False on
\* any exception
check_currency_exists(env, currency) ==
    LET res == get_response_of(fetch(env, currency \in SitePages))
    IN  IF res.exc # "none" THEN Returned(FALSE) ELSE Returned(res.val.ok)

\* CurrencyExchanger.check_rate_exists: all(...) over [iso_from, iso_to],
\* stopping at the first iso that fails
check_rate_exists(env, iso_from, iso_to) ==
    LET exists(x) == IF x \in Dedicated THEN Returned(TRUE)
                     ELSE check_currency_exists(env, x)
    IN  IF exists(iso_from).exc # "none" THEN exists(iso_from)
        ELSE IF ~exists(iso_from).val THEN Returned(FALSE)
        ELSE exists(iso_to)

\* FreecurrencyratesParser.get_rate(iso_from) with iso_to = "USD"
default_get_rate(env, iso_from) ==
    IF iso_from = "USD" THEN Returned(1)
    ELSE get_rate(get_response_of(fetch(env, iso_from \in SitePages)))

\* p.get_rate(iso) of the default parser, p.get_rate() of a dedicated one
parser_get_rate(env, iso) ==
    IF iso \in Dedicated THEN get_rate(get_response_of(fetch(env, TRUE)))
    ELSE default_get_rate(env, iso)

\* CurrencyExchanger.get_rate(iso_from, iso_to); the rate returned is
\* (1 / rate_to) * rate_from, kept as the two numbers
exchanger_get_rate(env, iso_from, iso_to) ==
    LET exists == check_rate_exists(env, iso_from, iso_to)
        rate_from == parser_get_rate(env, iso_from)
        rate_to == parser_get_rate(env, iso_to)
    IN  IF exists.exc # "none" THEN exists
        ELSE IF ~exists.val THEN Raised("CurrencyDoesNotExistError")
        ELSE IF rate_from.exc # "none" \/ rate_to.exc # "none"
        THEN Raised("ParsingError")
        ELSE Returned(<<rate_from.val, rate_to.val>>)

GetRate ==
    /\ e_pc = "input"
    /\ e_pc' = "done"
    /\ e_ret' = exchanger_get_rate(e_env, e_call.iso_from, e_call.iso_to)
    /\ UNCHANGED <<e_call, e_env>>
    /\ UNCHANGED <<utcnow, timevars, rangevars, logvars, parservars, loopvars, mainvars,
                   dbvars>>

\* The iso codes asked for, and the states of the network and of the pages.
ExchangeIsos == Dedicated \cup SitePages \cup {"XXX"}
Environments == [net : {"up", "down"}, text : {"3", "n/a", ""}]

InitExchanger ==
    /\ e_pc = "input"
    /\ e_call \in [iso_from : ExchangeIsos, iso_to : ExchangeIsos]
    /\ e_env \in Environments
    /\ e_ret = Raised("pending")

IdleExchanger ==
    /\ e_pc = "idle"
    /\ e_call = [iso_from |-> "USD", iso_to |-> "USD"]
    /\ e_env = [net |-> "up", text |-> "3"]
    /\ e_ret = Raised("pending")

(***************************************************************************)
(* main.py: infinite_loop                                                  *)
(***************************************************************************)
\* How a call of func ends: it returns, it raises an Exception, or it
\* raises a BaseException that is no Exception.
Exceptions == {"ValueError", "KeyError", "RuntimeError"}
BaseExceptions == {"SystemExit"}
FuncOutcomes == {"return"} \cup Exceptions \cup BaseExceptions
MaxCalls == 4

\* Variant: the except clause leaves the loop as well.
after_Break(outcome) ==
    IF outcome \in BaseExceptions THEN "raised" ELSE "returned"

\* Where the try statement goes after func ended with outcome: the else
\* clause breaks, except Exception goes round the loop, anything else
\* leaves infinite_loop as an exception.
after(outcome) ==
    IF outcome = "return" THEN "returned"
    ELSE IF outcome \in Exceptions THEN "try"
    ELSE "raised"

\* try: func(*args, **kwargs)
func(outcome) ==
    /\ il_pc = "try" /\ Len(il_history) < MaxCalls
    /\ il_history' = Append(il_history, outcome)
    /\ il_pc' = "handle"
    /\ UNCHANGED il_stdout
    /\ UNCHANGED <<utcnow, timevars, rangevars, logvars, parservars, exchvars, mainvars, dbvars>>

\* except Exception as e: print(repr(e)) / else: break
handle ==
    /\ il_pc = "handle"
    /\ LET outcome == il_history[Len(il_history)]
       IN  /\ il_pc' = after(outcome)
           /\ il_stdout' = IF outcome \in Exceptions THEN Append(il_stdout, outcome)
                           ELSE il_stdout
    /\ UNCHANGED il_history
    /\ UNCHANGED <<utcnow, timevars, rangevars, logvars, parservars, exchvars, mainvars, dbvars>>

InitLoop ==
    /\ il_pc = "try"
    /\ il_history = <<>>
    /\ il_stdout = <<>>

IdleLoop ==
    /\ il_pc = "idle"
    /\ il_history = <<>>
    /\ il_stdout = <<>>

\* The parsers as constructed, without proxies.
IdleParser == InitParser /\ proxy_list = <<>>

IdleAux == IdleRange /\ InitLogger /\ IdleParser /\ IdleExchanger /\ IdleLoop

(***************************************************************************)
(* Specifications                                                          *)
(***************************************************************************)
vars == <<utcnow, timevars, auxvars, mainvars, dbvars>>

InitTimeSpec == utcnow \in SampleNow /\ InitTime /\ IdleAux /\ InitMain /\ InitDB
NextTime == CheckDatetimeInFuture
SpecTime == InitTimeSpec /\ [][NextTime]_vars

NextNow == GetCurrentDatetime
SpecNow == InitTimeSpec /\ [][NextNow]_vars

InitMainSpec == utcnow \in SampleNow /\ IdleTime /\ IdleAux /\ InitMain /\ InitDB
SpecMain == InitMainSpec /\ [][NextMain]_vars

Init == utcnow = FixedNow /\ IdleTime /\ IdleAux /\ InitMain /\ InitDB
Spec == Init /\ [][NextDB]_vars
SpecSeq == Init /\ [][NextSeq]_vars
SpecPred == Init /\ [][NextPred]_vars
SpecChange == Init /\ [][NextChange]_vars
SpecUpToDate == Init /\ [][NextUpToDate]_vars
SpecUsers == Init /\ [][NextUsers]_vars
InitSession ==
    /\ utcnow = FixedNow /\ IdleTime /\ IdleAux /\ InitMain
    /\ \E store \in Stores : InitStore(store)
SpecSession == InitSession /\ [][NextSession]_vars
SpecDelete == Init /\ [][NextDelete]_vars
SpecProfile == Init /\ [][NextProfile]_vars
SpecRates == Init /\ [][NextRates]_vars

InitRangeSpec ==
    /\ utcnow = FixedNow /\ IdleTime /\ InitRange /\ InitLogger /\ IdleParser
    /\ IdleExchanger /\ IdleLoop /\ InitMain /\ InitDB
NextRange == wrapper
SpecRange == InitRangeSpec /\ [][NextRange]_vars
SpecLogger == Init /\ [][NextLogger]_vars
InitParserSpec ==
    /\ utcnow = FixedNow /\ IdleTime /\ IdleRange /\ InitLogger /\ InitParser
    /\ IdleExchanger /\ IdleLoop /\ InitMain /\ InitDB
SpecParser == InitParserSpec /\ [][NextParser]_vars

\* One statement of a call in progress on either handler, ending normally
\* or with an exception.
Proceed(t) ==
    \/ write_locked(t)
    \/ add_prediction_check(t)
    \/ add_prediction_insert(t)
    \/ toggle_check_prediction(t)
    \/ toggle_check_user(t)
    \/ toggle_delete(t)
    \/ toggle_insert(t)
    \/ add_session_check(t)
    \/ add_session_insert(t)
    \/ fetch_count_check(t)
    \/ fetch_count_select_is_pro(t)

\* The tasks call both handlers concurrently, on a file that may hold
\* committed rows.
NextLock ==
    \E t \in Threads :
        \/ execute(t)
        \/ Proceed(t)
        \/ sqlite_sequence = 0 /\ Inserting = {}
              /\ add_prediction(t, 1, "USD", "EUR", 1, AwareAt(2))
        \/ toggle_prediction_reaction(t, 1, 1, "True")
        \/ add_session(t, 1)
        \/ fetch_count(t, 1, TRUE)
\* A thread blocked on LOCK gets it at one of its releases, and a thread
\* holding it runs its statement.
SpecLock ==
    /\ InitSession /\ [][NextLock]_vars
    /\ \A t \in Threads : SF_vars(execute(t)) /\ WF_vars(Proceed(t))

\* The tasks ask for the quota of user 1 concurrently, on files that hold
\* the user, not premium, and a session with some count left or none.
QuotaStores ==
    {[EmptyStore EXCEPT !.users = SetToBag({StoredUser(PyInt(0))}), !.sessions = ss] :
        ss \in {EmptyBag} \cup
               {SetToBag({[user_id |-> 1, free_notifications_count |-> c]}) :
                   c \in 0 .. DefaultCount}}
InitQuota ==
    /\ utcnow = FixedNow /\ IdleTime /\ IdleAux /\ InitMain
    /\ \E store \in QuotaStores : InitStore(store)
NextQuota ==
    \E t \in Threads :
        \/ execute(t)
        \/ fetch_count_check(t)
        \/ fetch_count_select_is_pro(t)
        \/ \E d \in BOOLEAN : fetch_count(t, 1, d)
SpecQuota == InitQuota /\ [][NextQuota]_vars

\* One caller changing the stored profile of user 1, each call starting
\* from the rows of the file.
InitUpdate ==
    /\ utcnow = FixedNow /\ IdleTime /\ IdleAux /\ InitMain
    /\ \E p \in IsPros :
          InitStore([EmptyStore EXCEPT !.users = SetToBag({StoredUser(p)})])
NextUpdate ==
    \/ execute(Caller)
    \/ change_user_check(Caller)
    \/ change_user_update(Caller)
    \/ \E u \in UserIds, kw \in UserKwargs :
          users = disk.users /\ change_user(Caller, u, kw)
SpecUpdate == InitUpdate /\ [][NextUpdate]_vars

InitLoopSpec ==
    /\ utcnow = FixedNow /\ IdleTime /\ IdleRange /\ InitLogger /\ IdleParser
    /\ IdleExchanger /\ InitLoop /\ InitMain /\ InitDB
NextLoop ==
    \/ \E outcome \in FuncOutcomes : func(outcome)
    \/ handle
\* The thread running infinite_loop is scheduled again and again.
SpecLoop == InitLoopSpec /\ [][NextLoop]_vars /\ WF_vars(NextLoop)

InitExchangerSpec ==
    /\ utcnow = FixedNow /\ IdleTime /\ IdleRange /\ InitLogger /\ IdleParser
    /\ InitExchanger /\ IdleLoop /\ InitMain /\ InitDB
NextExchanger == GetRate
SpecExchanger == InitExchangerSpec /\ [][NextExchanger]_vars

\* The cached values of parsers without proxies, refreshed again and again.
InitValue == Init
NextValue ==
    \/ get_response_loop
    \/ update_value_finish
    \/ \E p \in Parsers : p_responses < MaxResponses /\ update_value(p, TRUE)
SpecValue == InitValue /\ [][NextValue]_vars

\* The most liked predictions are asked for while users react and time passes.
NextLiked ==
    \/ Tick
    \/ execute(Caller)
    \/ Statement(Caller)
    \/ get_max_liked_predictions_select(Caller)
    \/ \E u \in UserIds : add_user(Caller, u, PyInt(0), 0, "en")
    \/ \E d \in {AwareAt(2), AwareAt(3)} :
          Room /\ add_prediction(Caller, 1, "USD", "EUR", 1, d)
    \/ \E p \in PredIds, u \in UserIds, l \in IfLike :
          toggle_prediction_reaction(Caller, p, u, l)
    \/ get_max_liked_predictions(Caller)
SpecLiked == Init /\ [][NextLiked]_vars

\* Predictions are listed as actual or as unverified while they are created
\* and verified and time passes.
RealValueKwargs == {<<[k |-> "real_value", v |-> PyInt(5)]>>}
NextUnverified ==
    \/ Tick
    \/ execute(Caller)
    \/ add_user_insert(Caller)
    \/ add_prediction_check(Caller)
    \/ add_prediction_insert(Caller)
    \/ change_prediction_check(Caller)
    \/ change_prediction_update(Caller)
    \/ get_actual_predictions_select(Caller)
    \/ get_unverified_predictions_select(Caller)
    \/ add_user(Caller, 1, PyInt(0), 0, "en")
    \/ \E d \in {AwareAt(1), AwareAt(2)} :
          Room /\ add_prediction(Caller, 1, "USD", "EUR", 1, d)
    \/ \E p \in PredIds, kw \in RealValueKwargs : change_prediction(Caller, p, kw)
    \/ get_actual_predictions(Caller)
    \/ get_unverified_predictions(Caller)
SpecUnverified == Init /\ [][NextUnverified]_vars

(***************************************************************************)
(* Claims                                                                  *)
(***************************************************************************)
\* The current instant, as an aware UTC datetime.
NowUTC == add_offset(utcnow, 0)

\* Thread t has finished a call of op (and started no other since).
Done(t, op) == pc[t] = "idle" /\ call[t].op = op

\* The number of rows of predictions_reactions of one (pred_id, user_id)
\* pair with the given reaction, and with any reaction.
Reactions(p, u, like) ==
    CopiesIn([pred_id |-> p, user_id |-> u, reaction |-> like], predictions_reactions)
ReactionRows(p, u) == Reactions(p, u, TRUE) + Reactions(p, u, FALSE)

\* C1: at most one SQL statement is executing at any moment, whichever
\* threads and handlers issue them, and only under the lock.
C1_OneStatementAtATime ==
    /\ Cardinality(executing) <= 1
    /\ executing # {} => LOCK

C1_Witness ==
    \E a, b \in Threads :
        /\ a \in executing /\ call[a].op = "get_all_sessions"
        /\ b \notin executing /\ pc[b] = "delete_reaction"

\* C2: once two concurrent non-clearing toggles of the same (pred_id, user_id)
\* have both returned, exactly one reaction row exists for the pair.
C2_OneRowAfterConcurrentToggles ==
    (\A t \in Threads :
        /\ Done(t, "toggle_prediction_reaction")
        /\ ret[t] = Returned("True")
        /\ call[t].if_like # "None"
        /\ call[t].pred_id = 1 /\ call[t].user_id = 1)
    => ReactionRows(1, 1) = 1

\* C3: after any sequential series of toggles there is at most one row per
\* pair; it carries the value of the latest toggle, and there is none when the
\* latest toggle cleared the reaction (or none was ever made).
C3_ReactionIsLatestToggle ==
    \A p \in PredIds, u \in UserIds :
        /\ ReactionRows(p, u) <= 1
        /\ pc[Caller] = "idle" =>
             IF <<p, u>> \in DOMAIN last_toggle /\ last_toggle[<<p, u>>] # "None"
             THEN /\ ReactionRows(p, u) = 1
                  /\ Reactions(p, u, last_toggle[<<p, u>>] = "True") = 1
             ELSE ReactionRows(p, u) = 0

C3_Witness ==
    /\ Done(Caller, "toggle_prediction_reaction")
    /\ call[Caller].if_like = "False" /\ ret[Caller] = Returned("True")
    /\ Reactions(call[Caller].pred_id, call[Caller].user_id, FALSE) = 1
    /\ \E pair \in DOMAIN last_toggle : last_toggle[pair] = "None"

\* C4: each of the six top-level tasks is restarted whenever its body raises,
\* so no task's thread is ever terminated while the process runs.
C4_NoTaskStaysTerminated ==
    process = "running" => \A k \in Tasks : thread[k] # "terminated"

AddCall == call[Caller]
AddedNothing == currency_predictions = snap
AddedOneRow ==
    \E id \in DOMAIN currency_predictions :
        /\ id \notin DOMAIN snap
        /\ DOMAIN currency_predictions = DOMAIN snap \cup {id}
        /\ \A i \in DOMAIN snap : currency_predictions[i] = snap[i]
        /\ currency_predictions[id].real_value.t = "None"

\* Seconds by which the clock the call read was past up_to_date.
LateBy == TotalSecondsBetween(add_offset(AddCall.now, 0), AddCall.up_to_date)

\* The call had an existing user, a value > 0 and an aware up_to_date.
ValidAdd ==
    /\ Done(Caller, "add_prediction")
    /\ check_user_exists(AddCall.user_id)
    /\ AddCall.value > 0
    /\ AddCall.up_to_date.aware

C7_PastFailsFutureAdds ==
    ValidAdd =>
        /\ LateBy > 0 => ret[Caller].exc # "none" /\ AddedNothing
        /\ LateBy < 0 => ret[Caller] = Returned("True") /\ AddedOneRow

C7_Witness ==
    /\ ValidAdd /\ LateBy < 0
    /\ ret[Caller] = Returned("True")
    /\ snap # <<>>

\* C8 as stated: an up_to_date equal to the current time is rejected.
C8_EqualNowRejected ==
    ValidAdd /\ LateBy = 0 => ret[Caller].exc # "none" /\ AddedNothing

\* C8 as amended: up_to_date must be at or after the current time; a call
\* whose up_to_date equals the current time is accepted and adds one row.
C8_EqualNowAccepted ==
    ValidAdd /\ LateBy = 0 => ret[Caller] = Returned("True") /\ AddedOneRow

C8_Witness ==
    /\ ValidAdd /\ LateBy = 0
    /\ ret[Caller] = Returned("True")

\* C9: check_datetime_in_future returns true exactly when the target is at or
\* after the current instant, whatever utcoffset in -11..12 is passed, and
\* fails for a target without time-zone information.
C9_InFutureForEveryOffset ==
    t_pc = "done" /\ t_offset \in OffsetRange =>
        IF t_target.aware
        THEN t_result = Returned(TotalSecondsBetween(NowUTC, t_target) <= 0)
        ELSE t_result.exc = "AssertionError"

\* The change_prediction call names one of the identity fields.
NamesIdentity(kwargs) ==
    KwHas(kwargs, "iso_from") \/ KwHas(kwargs, "iso_to") \/ KwHas(kwargs, "user_id")

\* C10: whatever change_prediction is called with, the stored iso_from, iso_to
\* and user_id of every prediction stay what they were, and every call naming
\* one of them fails.
C10_IsosAndAuthorImmutable ==
    [][/\ \A id \in DOMAIN currency_predictions \cap DOMAIN currency_predictions' :
            /\ currency_predictions'[id].iso_from = currency_predictions[id].iso_from
            /\ currency_predictions'[id].iso_to = currency_predictions[id].iso_to
            /\ currency_predictions'[id].user_id = currency_predictions[id].user_id
        /\ (/\ call[Caller].op = "change_prediction"
             /\ pc[Caller] # "idle" /\ pc'[Caller] = "idle"
             /\ call[Caller].id \in DOMAIN currency_predictions
             /\ NamesIdentity(call[Caller].kwargs))
           => ret'[Caller].exc # "none"]_vars

\* C11: every step that changes a prediction's stored up_to_date stores a
\* datetime that was not in the past when the changing call was made, in
\* whatever form (timestamp object or text) the call supplied it.
C11_StoredUpToDateWasInFuture ==
    [][\A id \in DOMAIN currency_predictions \cap DOMAIN currency_predictions' :
          currency_predictions'[id].up_to_date # currency_predictions[id].up_to_date
          => TotalSecondsBetween(add_offset(call[Caller].now, 0),
                                 currency_predictions'[id].up_to_date.d) <= 0]_vars

\* C12: every users_rates row and every sessions row has a user_id for which
\* a users row exists.
C12_RowsReferToUsers ==
    /\ \A r \in DOMAIN users_rates : check_user_exists(r.user_id)
    /\ \A r \in DOMAIN sessions : check_user_exists(r.user_id)

\* C13: once delete_prediction(p) has returned, predictions_reactions holds no
\* row with pred_id = p.
C13_ReactionsGoWithPrediction ==
    Done(Caller, "delete_prediction") /\ ret[Caller] = Returned("True") =>
        \A u \in UserIds : ReactionRows(call[Caller].pred_id, u) = 0

\* The rows of users with user_id u, and of users_rates with key (u, iso).
UserRows(table, u) == Rows(table, LAMBDA r : r.user_id = PyInt(u))
RateRows(table, u, iso) == Rows(table, LAMBDA r : r.user_id = u /\ r.iso = iso)

\* The row the add_user_rate call c inserts.
RateRow(c) ==
    [user_id |-> c.user_id, iso |-> c.iso, start_value |-> c.start_value,
     check_times |-> join(c.check_times)]

\* Thread t's call of op returns True in this step.
Succeeds(t, op) ==
    /\ call[t].op = op /\ pc[t] # "idle" /\ pc'[t] = "idle"
    /\ ret'[t] = Returned("True")

C15_ConstraintsBecomeValueError ==
    \A t \in Threads : ret[t].exc \notin {"IntegrityError", "OperationalError"}

\* C16: the effect of a successful write is committed: the row a returned
\* add_user stored is in the database file, where the other handler's
\* connection and a restarted process find it.
C16_WritesAreCommitted ==
    Done(Caller, "add_user") /\ ret[Caller] = Returned("True") =>
        /\ CopiesIn(add_user_row(call[Caller]), disk.users) = 1
        /\ CopiesIn(add_user_row(call[Caller]), users_seen_by("SessionDBHandler")) = 1

\* C17: for an existing user with exactly one subscription, added with the
\* list L of check times, get_user_rates returns exactly one tuple, whose
\* check_times is L.
C17_CheckTimesRoundTrip ==
    \A L \in CheckTimes \cup {<<"09:00">>}, i \in Isos :
        /\ Done(Caller, "get_user_rates")
        /\ check_user_exists(call[Caller].user_id)
        /\ Rows(users_rates, LAMBDA r : r.user_id = call[Caller].user_id)
             = SetToBag({RateRow([user_id |-> call[Caller].user_id, iso |-> i,
                                  start_value |-> 1, check_times |-> L])})
        => /\ ret[Caller].exc = "none"
           /\ ret[Caller].val = <<[iso |-> i, start_value |-> 1, check_times |-> L]>>

\* C18: get_user returns None for an id without a users row; for an existing
\* user it returns the 8-element profile of the stored values, a premium
\* value stored as a timestamp text coming back as that timestamp.
C18_GetUserReturnsProfile ==
    Done(Caller, "get_user") =>
        IF ~check_user_exists(call[Caller].user_id)
        THEN ret[Caller] = Returned("None")
        ELSE /\ ret[Caller].exc = "none"
             /\ \E r \in DOMAIN users :
                   /\ r.user_id = PyInt(call[Caller].user_id)
                   /\ ret[Caller].val =
                        <<r.user_id, r.is_active,
                          IF r.is_pro.t = "str" THEN PyDatetime(r.is_pro.d) ELSE r.is_pro,
                          r.is_staff, r.to_notify_by_experts, <<>>, r.timezone,
                          r.language>>

\* C19: get_max_liked_predictions returns exactly the predictions whose
\* up_to_date is still in the future, each once, those without reactions
\* included, ordered by likes minus dislikes, descending.
Likes(p) == likes_diff(p)
Dislikes(p) == BagCardinality(Rows(predictions_reactions,
                                   LAMBDA r : r.pred_id = p /\ ~r.reaction))
StillFuture ==
    {p \in DOMAIN currency_predictions :
        TotalSecondsBetween(currency_predictions[p].up_to_date.d, NowUTC) > 0}
C19_FuturePredictionsByLikes ==
    [][(/\ call[Caller].op = "get_max_liked_predictions"
        /\ pc[Caller] # "idle" /\ pc'[Caller] = "idle")
       => /\ ret'[Caller].exc = "none"
          /\ LET out == ret'[Caller].val
             IN  /\ Len(out) = Cardinality(StillFuture)
                 /\ {out[i] : i \in DOMAIN out} = StillFuture
                 /\ \A i, j \in DOMAIN out :
                       i < j => Likes(out[i]) - Dislikes(out[i])
                                >= Likes(out[j]) - Dislikes(out[j])]_vars

\* C20: fetch_count(user_id, with_decrease) returns None and changes nothing
\* when the user has no session or no users row; returns 1 and leaves the
\* count alone when the user is premium; otherwise returns the count stored
\* before the call, the stored count being one less afterwards exactly when
\* with_decrease is set.  (Stated for users whose row, or its absence, is
\* the same on both connections.)
SessionUsers(u) ==
    {r \in DOMAIN users_seen_by("SessionDBHandler") : r.user_id = PyInt(u)}
StoredCount(table, u) ==
    CHOOSE c \in 0 .. DefaultCount :
        [user_id |-> u, free_notifications_count |-> c] \in DOMAIN table
C20_FetchCount ==
    [][LET u == call[Caller].user_id
           row == CHOOSE r \in SessionUsers(u) : TRUE
           absent == ~check_session_exists(u) \/ SessionUsers(u) = {}
           pro == ~absent /\ Truthy(row.is_pro)
           dec == IF call[Caller].with_decrease THEN 1 ELSE 0
       IN  (/\ call[Caller].op = "fetch_count" /\ pc[Caller] # "idle"
            /\ (check_user_exists(u) <=> SessionUsers(u) # {}))
           => /\ (absent \/ pro) => sessions' = sessions
              /\ pc'[Caller] = "idle" =>
                   IF absent THEN ret'[Caller] = Returned("None")
                   ELSE /\ ret'[Caller].exc = "none"
                        /\ ret'[Caller].val =
                             IF pro THEN 1 ELSE StoredCount(sessions', u) + dec]_vars

\* C21: a call that passes a checked parameter, positionally or by keyword,
\* with a value outside the range (strict: not low < v < high; inclusive:
\* not low <= v <= high) fails and the wrapped body is not executed;
\* when every checked parameter that is passed is in range, the body runs.
Passed(c) ==
    {[argname |-> allargs[pos], value |-> c.args[pos]] : pos \in 2 .. Len(c.args)}
    \cup {[argname |-> c.kwargs[i].k, value |-> c.kwargs[i].v] : i \in DOMAIN c.kwargs}
Outside(strict_range, v) ==
    IF strict_range THEN ~(RangeLow < v /\ v < RangeHigh)
    ELSE ~(RangeLow <= v /\ v <= RangeHigh)
C21_OutOfRangeNeverRunsBody ==
    r_pc = "done" =>
        /\ (\E p \in Passed(r_call) :
               p.value.t = "int" /\ Outside(r_call.strict_range, p.value.n))
           => r_result.exc # "none" /\ ~r_body
        /\ (\A p \in Passed(r_call) :
               p.value.t = "int" /\ ~Outside(r_call.strict_range, p.value.n))
           => r_result = Returned("func") /\ r_body

\* The low bound itself, passed by keyword and positionally, was rejected in
\* strict mode and accepted in inclusive mode.
C21_Witness ==
    /\ r_pc = "done"
    /\ \E p \in Passed(r_call) : p.value = PyInt(RangeLow)
    /\ \A p \in Passed(r_call) : p.value \in {PyInt(RangeLow), PyInt(RangeLow + 1)}
    /\ r_call.strict_range => ~r_body
    /\ ~r_call.strict_range => r_body

\* C22: the minimum level is always one of the four recognised levels, and
\* set_level with an unrecognised level fails and leaves it unchanged; a log
\* call writes its line to the open file and to the console exactly when
\* the level of the message is at or above the minimum, and a call below
\* the minimum writes nothing and rotates nothing.
Recognised == {"debug", "info", "warning", "error"}
Severity(level) ==
    CASE level = "debug" -> 1 [] level = "info" -> 2
      [] level = "warning" -> 3 [] level = "error" -> 4
C22_LevelFiltersWrites ==
    [][l_calls' = l_calls + 1 =>
        /\ log_level \in Recognised /\ log_level' \in Recognised
        /\ (l_call'.op = "set_level" /\ l_call'.level \notin Recognised)
           => l_ret'.exc # "none" /\ log_level' = log_level
        /\ (l_call'.op = "log" /\ lower(l_call'.kind) \in Recognised) =>
             IF Severity(lower(l_call'.kind)) >= Severity(log_level)
             THEN /\ l_ret'.exc = "none"
                  /\ logfiles'[logfile].lines = logfiles[logfile].lines + 1
                  /\ logfiles'[logfile].size
                       = logfiles[logfile].size + LineSize(l_call'.kind, l_call'.bytes)
                  /\ console' = console + 1
             ELSE UNCHANGED <<logfiles, console, log_count, logfile>>]_vars

\* A debug message was dropped under the minimum info, after a line had
\* been written.
C22_Witness ==
    /\ l_call.op = "log" /\ l_call.kind = "debug" /\ log_level = "info"
    /\ l_ret = Returned("None")
    /\ console = 1 /\ logfiles[1].lines = 1 /\ l_calls > 1

\* C23: the log files are numbered consecutively from 1 and only the
\* highest-numbered one is open; a file left at or above 102,400 bytes by a
\* write is closed, so that the next line lands in the next-numbered file;
\* no line is written to a closed file.
FilesInOrder ==
    /\ DOMAIN logfiles = 1 .. log_count
    /\ logfile = log_count
    /\ \A n \in DOMAIN logfiles :
          /\ logfiles[n].closed <=> n < log_count
          /\ logfiles[n].closed <=> logfiles[n].size >= 102400
    /\ l_ret.exc # "ValueError"
C23_RotationAtMaxSize ==
    [][/\ FilesInOrder /\ FilesInOrder'
       /\ \A n \in DOMAIN logfiles : logfiles[n].closed => logfiles'[n] = logfiles[n]]_vars

\* A write left log1.log at exactly 102,400 bytes; it is closed and a later
\* line is in log2.log.
C23_Witness ==
    /\ log_count = 2
    /\ logfiles[1].size = 102400 /\ logfiles[1].closed
    /\ logfiles[2].lines > 0 /\ ~logfiles[2].closed

\* C24: update_value(safe=True) never raises: when the fetch or the parse
\* fails (no element for the selector, a malformed number, every attempt a
\* connection error) it sets the cached value to the fallback and returns
\* False; when the parse succeeds it caches the parsed value and returns True.
Finishes(op) == p_call.op = op /\ p_pc = "return" /\ p_pc' = "idle"
Parsed == q # Unbound /\ q.element /\ float(q.text).exc = "none"
C24_SafeUpdateNeverRaises ==
    [][(Finishes("update_value") /\ p_call.safe) =>
        /\ p_ret'.exc = "none"
        /\ IF Parsed
           THEN /\ p_ret' = Returned("True")
                /\ p_value'[p_call.parser] = float(q.text).val
           ELSE /\ p_ret' = Returned("False")
                /\ p_value'[p_call.parser] = default_value]_vars

\* C28: within one call of get_response every proxied request comes before
\* every direct one; the call stops at the first response that passes
\* test_response, returns it and makes no request after it; after a request
\* that failed with a connection error the next request uses a new session.
C28_AttemptsInOrder ==
    [][/\ p_pc = "loop" =>
            /\ (attempted.made /\ attempted.proxy = "None") => attempted'.proxy = "None"
            /\ (attempted.made /\ attempted.error)
               => attempted'.session # attempted.session
            /\ (~attempted'.error /\ test_response(q')) => p_pc' = "return"
       /\ (Finishes("get_response") /\ test_response(q)) => p_ret' = Returned(q)]_vars

\* C29: in every call of get_response, whichever calls were made before on
\* this parser or on another parser given the same proxy list, there are at
\* most five direct requests and at most (configured proxies + 5) requests.
Configured == {proxy_list[i] : i \in DOMAIN proxy_list} \ {"None"}
C29_AtMostFiveDirectAttempts ==
    /\ attempted.direct <= 5
    /\ attempted.total <= Cardinality(Configured) + 5

Resolvable(iso) == iso \in Dedicated \cup SitePages
Fetched(iso) == ~(iso = "USD")
C25_NotFoundOnlyForUnknownIso ==
    e_pc = "done" =>
        LET from == e_call.iso_from
            to == e_call.iso_to
            supported == Resolvable(from) /\ Resolvable(to)
            failing == /\ Fetched(from) \/ Fetched(to)
                       /\ e_env.net = "down" \/ e_env.text # "3"
        IN  /\ e_ret.exc = "CurrencyDoesNotExistError" <=> ~supported
            /\ (supported /\ failing) => e_ret.exc = "ParsingError"

\* The wall clock k hours away from the naive datetime n, the date rolled
\* over the ends of the day, the month and the year.
ShiftHours(n, k) ==
    LET carry == (n.hour + k) \div 24
        hour == (n.hour + k) % 24
        date ==
            IF n.day + carry > DaysInMonth(n.year, n.month)
            THEN IF n.month = 12 THEN <<n.year + 1, 1, 1>>
                 ELSE <<n.year, n.month + 1, 1>>
            ELSE IF n.day + carry < 1
            THEN IF n.month = 1 THEN <<n.year - 1, 12, 31>>
                 ELSE <<n.year, n.month - 1, DaysInMonth(n.year, n.month - 1)>>
            ELSE <<n.year, n.month, n.day + carry>>
    IN  [n EXCEPT !.year = date[1], !.month = date[2], !.day = date[3],
                  !.hour = hour]

\* C26: for every utcoffset in -11..12 and every current UTC time,
\* get_current_datetime succeeds and returns the local wall clock (hour
\* (h + offset) mod 24, date rolled over day, month and year boundaries)
\* tagged with that offset; outside the range it fails.
C26_LocalTimeForEveryOffset ==
    t_pc = "done" =>
        IF t_offset \in OffsetRange
        THEN t_result = Returned(add_offset(ShiftHours(utcnow, t_offset), t_offset))
        ELSE t_result.exc = "AssertionError"

\* The predictions whose target datetime has passed and whose real value
\* is not recorded.
Unverified ==
    {p \in DOMAIN currency_predictions :
        /\ datetime_before_now(currency_predictions[p].up_to_date)
        /\ currency_predictions[p].real_value = PyNone}
Selects(op) == call[Caller].op = op /\ pc[Caller] # "idle" /\ pc'[Caller] = "idle"
Listed(result) == {result.val[i][1].n : i \in DOMAIN result.val}

\* C27: get_unverified_predictions returns exactly the predictions whose
\* target has passed and whose real value is absent (so none whose real
\* value change_prediction has set), and get_actual_predictions returns
\* none of them.
C27_UnverifiedUntilRealValueSet ==
    [][/\ Selects("get_unverified_predictions") =>
            /\ ret'[Caller].exc = "none"
            /\ Listed(ret'[Caller]) = Unverified
       /\ Selects("get_actual_predictions") /\ ret'[Caller].exc = "none" =>
            Listed(ret'[Caller]) \cap Unverified = {}]_vars

\* C31: infinite_loop calls func again after every call that raised an
\* Exception and returns exactly when a call returned without raising: it
\* never returns after a failed call, never calls func after a successful
\* one, and a successful call always leads to its return.
LastCall == il_history[Len(il_history)]
Succeeded == il_history # <<>> /\ LastCall = "return"
Failed == il_history # <<>> /\ LastCall \in Exceptions
C31_LoopsUntilFuncReturns ==
    /\ [][/\ il_pc' = "returned" /\ il_pc # "returned" => Succeeded
          /\ il_history' # il_history =>
                \A i \in DOMAIN il_history : il_history[i] \in Exceptions
          /\ il_pc = "handle" /\ Failed => il_pc' = "try"]_vars
    /\ (il_pc = "handle" /\ Succeeded) ~> (il_pc = "returned")
    /\ (il_pc = "handle" /\ Failed) ~> (il_pc = "try")

C31_Witness ==
    /\ il_pc = "returned"
    /\ Len(il_history) = 3
    /\ il_stdout = <<"KeyError", "ValueError">>

Granted ==
    {t \in Threads :
        /\ Done(t, "fetch_count") /\ call[t].with_decrease
        /\ ret[t].exc = "none"
        /\ ret[t].val \in {repr(c) : c \in 1 .. DefaultCount}}
QuotaAtStart ==
    IF disk.sessions = EmptyBag THEN 0
    ELSE (CHOOSE r \in DOMAIN disk.sessions : TRUE).free_notifications_count
C34_FailedUpdateChangesNothing ==
    Done(Caller, "change_user") /\ ret[Caller] = Raised("ValueError") =>
        users = disk.users

=============================================================================
